---------------------------- MODULE Spec2Model ----------------------------
(***************************************************************************)
(* Library outreach campaign tracker (scripts/library_outreach.py).        *)
(*                                                                         *)
(* The state is the three kinds of files the class LibraryOutreach owns:   *)
(* the contact store libraries.csv, the campaign log campaigns.json and    *)
(* the per-run report files, plus the wall clock, the count of the calls   *)
(* and the value returned by the last call.  Every method is a pure        *)
(* operator from (files, arguments, clock readings) to (files, return      *)
(* value); an action applies one method.                                   *)
(***************************************************************************)
EXTENDS Integers, Sequences, FiniteSets, TLC

VARIABLES
    libraries_db,   \* contacts/libraries.csv : [exists, lines]
    campaigns_db,   \* contacts/campaigns.json: [exists, doc]
    reports,        \* reports/library_campaign_<stamp>.csv: stamp -> lines
    now,            \* the wall clock: the second datetime.now() gives
    calls,          \* the number of calls made since Init
    ret,            \* the last call: its name, arguments and return value
    kpi_file,       \* reports/kpi_history.json: [exists, doc]
    price_files     \* reports/price_history_<asin>.json: asin -> [exists, doc]

vars == <<libraries_db, campaigns_db, reports, now, calls, ret, kpi_file, price_files>>

(***************************************************************************)
(* Bounds of the model.                                                    *)
(***************************************************************************)
MaxClock == 1   \* seconds the clock advances after Init

MaxOps == 1     \* calls made after Init

(***************************************************************************)
(* Python values.  An optional string (None or a str) is a sequence of     *)
(* length 0 or 1, so that None differs from every string, "" included.     *)
(***************************************************************************)
None == <<>>

Some(s) == <<s>>

\* Python truthiness of an optional string: None and "" are falsy.
Truthy(o) == o # None /\ o[1] # ""

Min(a, b) == IF a <= b THEN a ELSE b

Max(a, b) == IF a >= b THEN a ELSE b

\* A slice that is off by one: seq[:n + 1] for n >= 0.
SliceTo_OneMore(seq, n) ==
    IF n >= 0 THEN SubSeq(seq, 1, Min(n + 1, Len(seq)))
              ELSE SubSeq(seq, 1, Max(Len(seq) + n, 0))

\* seq[:n], Python slice semantics: a negative n counts from the end.
SliceTo(seq, n) ==
    IF n >= 0 THEN SubSeq(seq, 1, Min(n, Len(seq)))
              ELSE SubSeq(seq, 1, Max(Len(seq) + n, 0))

\* The strings datetime.now() is formatted to.  The clock counts whole seconds
\* from 2026-01-01 23:59:59: second 0 is the last of that day, and second
\* t >= 1 is 00:00:(t - 1) of 2026-01-02, for t <= 60.
TwoDigits(n) == IF n < 10 THEN "0" \o ToString(n) ELSE ToString(n)          \* '%d', '%S'

StrftimeDate(t) == IF t = 0 THEN "2026-01-01" ELSE "2026-01-02"          \* '%Y-%m-%d'

StrftimeStamp(t) ==                                            \* '%Y%m%d_%H%M%S'
    IF t = 0 THEN "20260101_235959" ELSE "20260102_0000" \o TwoDigits(t - 1)

IsoFormat(t) ==                                                \* isoformat()
    IF t = 0 THEN "2026-01-01T23:59:59" ELSE "2026-01-02T00:00:" \o TwoDigits(t - 1)

\* The readings of datetime.now() made by one call, in the order the call makes
\* them: clock.readings[k] is the second the k-th reading gives, and clock.t
\* the second in which the call is made.  (A call makes no reading past the
\* last of the sequence; such a reading would fall in the last second known.)
Reading(clock, k) ==
    IF k <= Len(clock.readings) THEN clock.readings[k]
    ELSE IF clock.readings = <<>> THEN clock.t
    ELSE clock.readings[Len(clock.readings)]

(***************************************************************************)
(* CSV files.  A file is the sequence of its lines, a line the sequence of *)
(* its fields.  csv.DictReader takes the first line as field names and     *)
(* turns every other line into a dict; csv.DictWriter writes the field     *)
(* names and then one line per dict.                                       *)
(***************************************************************************)
IndexOf(seq, k) == CHOOSE j \in 1..Len(seq) : seq[j] = k

Keys(fieldnames) == {fieldnames[j] : j \in 1..Len(fieldnames)}

DictReader(lines) ==
    IF lines = <<>>
    THEN [fieldnames |-> <<>>, rows |-> <<>>]
    ELSE [fieldnames |-> lines[1],
          rows |-> [i \in 1..(Len(lines) - 1) |->
                      [k \in Keys(lines[1]) |->
                          lines[i + 1][IndexOf(lines[1], k)]]]]

DictWriter(fieldnames, rows) ==
    <<fieldnames>> \o
    [i \in 1..Len(rows) |-> [j \in 1..Len(fieldnames) |-> rows[i][fieldnames[j]]]]

AbsentFile == [exists |-> FALSE, lines |-> <<>>]

File(lines) == [exists |-> TRUE, lines |-> lines]

(***************************************************************************)
(* create_library_template: the seed store.                                *)
(***************************************************************************)
Header ==
    <<"nombre", "email", "ciudad", "pais", "region", "tipo",
      "idioma_preferido", "contactado", "fecha_contacto", "respuesta", "notas">>

\* A seed in which a row was copied without changing its email.
template_DuplicateEmail ==
    << Header,
       <<"Biblioteca Nacional de España", "contacto@bne.es", "Madrid", "España", "Europa", "Nacional", "ES", "No", "", "", "">>,
       <<"Biblioteca Pública Municipal de Madrid", "contacto@bne.es", "Madrid", "España", "España", "Publica", "ES", "No", "", "", "">> >>

template ==
    << Header,
       <<"Biblioteca Nacional de España", "contacto@bne.es", "Madrid", "España", "Europa", "Nacional", "ES", "No", "", "", "">>,
       <<"Biblioteca Pública Municipal de Madrid", "bibliotecas@madrid.es", "Madrid", "España", "España", "Publica", "ES", "No", "", "", "">>,
       <<"Biblioteca de Catalunya", "biblioteca@bc.cat", "Barcelona", "España", "España", "Nacional", "ES", "No", "", "", "">>,
       <<"Biblioteca Pública de Andalucía", "biblioteca@juntadeandalucia.es", "Sevilla", "España", "España", "Publica", "ES", "No", "", "", "">>,
       <<"Biblioteca Nacional de México", "contacto@bnm.unam.mx", "Ciudad de México", "México", "Latinoamérica", "Nacional", "ES", "No", "", "", "">>,
       <<"Biblioteca Nacional de Argentina", "info@bn.gov.ar", "Buenos Aires", "Argentina", "Latinoamérica", "Nacional", "ES", "No", "", "", "">>,
       <<"Biblioteca Nacional de Colombia", "contacto@bn.gov.co", "Bogotá", "Colombia", "Latinoamérica", "Nacional", "ES", "No", "", "", "">>,
       <<"Biblioteca de Santiago", "biblioteca@santiago.cl", "Santiago", "Chile", "Latinoamérica", "Publica", "ES", "No", "", "", "">>,
       <<"New York Public Library", "acquisitions@nypl.org", "New York", "USA", "Norte America", "Publica", "EN", "No", "", "", "">>,
       <<"Los Angeles Public Library", "collections@lapl.org", "Los Angeles", "USA", "Norte America", "Publica", "EN", "No", "", "", "">>,
       <<"Miami-Dade Public Library", "acquisitions@mdpls.org", "Miami", "USA", "Norte America", "Publica", "ES", "No", "", "", "Hispanic community">>,
       <<"Houston Public Library", "collections@houstontx.gov", "Houston", "USA", "Norte America", "Publica", "EN", "No", "", "", "">>,
       <<"British Library", "acquisitions@bl.uk", "London", "UK", "Europa", "Nacional", "EN", "No", "", "", "">>,
       <<"London Public Library", "info@londonlibrary.co.uk", "London", "UK", "Europa", "Publica", "EN", "No", "", "", "">>,
       <<"Bibliothèque Nationale de France", "contact@bnf.fr", "Paris", "Francia", "Europa", "Nacional", "FR", "No", "", "", "">>,
       <<"Bibliothèque Publique de Paris", "bibliotheque@paris.fr", "Paris", "Francia", "Europa", "Publica", "FR", "No", "", "", "">>,
       <<"Biblioteca Nazionale Centrale di Roma", "bncrm@beniculturali.it", "Roma", "Italia", "Europa", "Nacional", "IT", "No", "", "", "">>,
       <<"Biblioteca Nazionale di Milano", "bnm@beniculturali.it", "Milán", "Italia", "Europa", "Nacional", "IT", "No", "", "", "">>,
       <<"Toronto Public Library", "collections@tpl.ca", "Toronto", "Canadá", "Norte America", "Publica", "EN", "No", "", "", "">>,
       <<"Vancouver Public Library", "info@vpl.ca", "Vancouver", "Canadá", "Norte America", "Publica", "EN", "No", "", "", "">> >>

\* A creation that writes the seed whether or not the file exists.
create_library_template_Always(db) == File(template)

\* A creation test on the content: a store file without contacts is written anew.
create_library_template_IfNoRows(db) ==
    IF db.exists /\ Len(db.lines) > 1 THEN db ELSE File(template)

\* if os.path.exists(self.libraries_db): return; otherwise write the template.
create_library_template(db) == IF db.exists THEN db ELSE File(template)

(***************************************************************************)
(* load_libraries(region, language, only_new)                              *)
(***************************************************************************)
\* The loop body with an only_new test for 'Yes', a value no row ever has.
RowPasses_TestsYes(row, region, language, only_new) ==
    /\ ~(Truthy(region) /\ row["region"] # region[1])
    /\ ~(Truthy(language) /\ row["idioma_preferido"] # language[1])
    /\ ~(only_new /\ row["contactado"] = "Yes")

\* The loop body without its only_new test.
RowPasses_IgnoresOnlyNew(row, region, language, only_new) ==
    /\ ~(Truthy(region) /\ row["region"] # region[1])
    /\ ~(Truthy(language) /\ row["idioma_preferido"] # language[1])

\* The three `continue` tests of the loop body, negated.
RowPasses(row, region, language, only_new) ==
    /\ ~(Truthy(region) /\ row["region"] # region[1])
    /\ ~(Truthy(language) /\ row["idioma_preferido"] # language[1])
    /\ ~(only_new /\ row["contactado"] = "Si")

\* The rows the loop appends to `libraries`, in file order.
FilterRows(rows, region, language, only_new) ==
    SelectSeq(rows, LAMBDA row : RowPasses(row, region, language, only_new))

\* A load that returns the contacted libraries whatever only_new is.
load_libraries_IncludesContacted(db, region, language, only_new) ==
    FilterRows(DictReader(create_library_template(db).lines).rows,
               region, language, FALSE)

\* The list returned, read from the store as create_library_template left it.
load_libraries(db, region, language, only_new) ==
    FilterRows(DictReader(create_library_template(db).lines).rows,
               region, language, only_new)

\* load_libraries on a store file that cannot be read to its end (not a file,
\* unreadable, bytes that are not UTF-8): the reader raises after it has
\* yielded `read` rows, `except Exception` prints the error, and the list built
\* so far is returned.
load_libraries_unreadable(db, region, language, only_new, read) ==
    FilterRows(SubSeq(DictReader(create_library_template(db).lines).rows, 1, read),
               region, language, only_new)

(***************************************************************************)
(* generate_email(library, language)                                       *)
(***************************************************************************)
\* self.templates; a body is the text before and after its {nombre} field.
templates ==
    [ES |-> [subject |-> "Nuevo Catálogo de Autor Español - Francisco Angulo de Lafuente - Disponible para Bibliotecas",
             body |-> <<"Estimado/a ", ",\n\nMi nombre es [Agent Name] ...">>],
     EN |-> [subject |-> "New Spanish Author Catalog - Francisco Angulo de Lafuente - Available for Library Acquisition",
             body |-> <<"Dear ", ",\n\nMy name is [Agent Name] ...">>],
     FR |-> [subject |-> "Nouveau Catalogue d'Auteur Espagnol - Francisco Angulo de Lafuente - Disponible pour les Bibliothèques",
             body |-> <<"Cher/Chère ", ",\n\nJe m'appelle [Agent Name] ...">>]]

\* dict.get(key, default) on a dict with string keys.
DictGet(d, k, default) == IF k \in DOMAIN d THEN d[k] ELSE default

\* str.format(nombre=...) on a body with one {nombre} field.
Format(body, nombre) == body[1] \o nombre \o body[2]

\* A lookup whose fallback is the English template.
resolve_DefaultsToEN(language) == DictGet(templates, language, templates["EN"])

\* self.templates.get(language, self.templates['ES'])
resolve(language) == DictGet(templates, language, templates["ES"])

\* An email whose 'language' is that of the template used: 'ES' for a language
\* without a template.
generate_email_TemplateLanguage(library, language) ==
    LET lang == IF ~Truthy(language)
                THEN DictGet(library, "idioma_preferido", "ES")
                ELSE language[1]
        tpl == resolve(lang)
        nombre == DictGet(library, "nombre", "Bibliotecario/a")
    IN  [subject |-> tpl.subject,
         body |-> Format(tpl.body, nombre),
         language |-> IF lang \in DOMAIN templates THEN lang ELSE "ES"]

\* An email that is Spanish whenever no language is given, whatever the contact prefers.
generate_email_DefaultsToES(library, language) ==
    LET lang == IF ~Truthy(language) THEN "ES" ELSE language[1]
        tpl == resolve(lang)
        nombre == DictGet(library, "nombre", "Bibliotecario/a")
    IN  [subject |-> tpl.subject,
         body |-> Format(tpl.body, nombre),
         language |-> lang]

generate_email(library, language) ==
    LET lang == IF ~Truthy(language)
                THEN DictGet(library, "idioma_preferido", "ES")
                ELSE language[1]
        tpl == resolve(lang)
        nombre == DictGet(library, "nombre", "Bibliotecario/a")
    IN  [subject |-> tpl.subject,
         body |-> Format(tpl.body, nombre),
         language |-> lang]

(***************************************************************************)
(* track_contact(library_email, status, notes)                             *)
(***************************************************************************)
\* An update that assigns the date, the response and the notes, and not the flag.
UpdateFirst_ForgetsFlag(rows, library_email, status, notes, t) ==
    LET hits == {i \in 1..Len(rows) : rows[i]["email"] = library_email}
    IN  IF hits = {} THEN rows
        ELSE LET first == CHOOSE i \in hits : \A j \in hits : i <= j
             IN  [rows EXCEPT ![first] =
                     [@ EXCEPT !["fecha_contacto"] = StrftimeDate(t),
                               !["respuesta"] = status,
                               !["notas"] = notes]]

\* A loop without its email test after the first hit: every later row is marked too.
UpdateFirst_MarksRest(rows, library_email, status, notes, t) ==
    LET hits == {i \in 1..Len(rows) : rows[i]["email"] = library_email}
    IN  IF hits = {} THEN rows
        ELSE LET first == CHOOSE i \in hits : \A j \in hits : i <= j
             IN  [i \in 1..Len(rows) |->
                     IF i < first THEN rows[i]
                     ELSE [rows[i] EXCEPT !["contactado"] = "Si",
                                          !["fecha_contacto"] = StrftimeDate(t),
                                          !["respuesta"] = status,
                                          !["notas"] = notes]]

\* An update that appends the notes to the row's old notes instead of replacing them.
UpdateFirst_AppendsNotes(rows, library_email, status, notes, t) ==
    LET hits == {i \in 1..Len(rows) : rows[i]["email"] = library_email}
    IN  IF hits = {} THEN rows
        ELSE LET first == CHOOSE i \in hits : \A j \in hits : i <= j
             IN  [rows EXCEPT ![first] =
                     [@ EXCEPT !["contactado"] = "Si",
                               !["fecha_contacto"] = StrftimeDate(t),
                               !["respuesta"] = status,
                               !["notas"] = @ \o notes]]

\* The loop `for lib in libraries: if lib['email'] == library_email: ...; break`:
\* the first row with that email is updated, and no other.
UpdateFirst(rows, library_email, status, notes, t) ==
    LET hits == {i \in 1..Len(rows) : rows[i]["email"] = library_email}
    IN  IF hits = {} THEN rows
        ELSE LET first == CHOOSE i \in hits : \A j \in hits : i <= j
             IN  [rows EXCEPT ![first] =
                     [@ EXCEPT !["contactado"] = "Si",
                               !["fecha_contacto"] = StrftimeDate(t),
                               !["respuesta"] = status,
                               !["notas"] = notes]]

\* The file after the call, for a file that exists (open(..,'r') raises
\* FileNotFoundError otherwise).  An empty list writes an empty file.
track_contact(db, library_email, status, notes, t) ==
    LET read == DictReader(db.lines)
        libraries == UpdateFirst(read.rows, library_email, status, notes, t)
    IN  IF libraries # <<>>
        THEN File(DictWriter(read.fieldnames, libraries))
        ELSE File(<<>>)

(***************************************************************************)
(* save_campaign(campaign_data): campaigns.json                            *)
(***************************************************************************)
\* json.dump / json.load of the values a campaign holds: None <-> null.
JsonOpt(o) == IF o = None THEN [null |-> TRUE] ELSE [string |-> o[1]]

PyOpt(j) == IF "null" \in DOMAIN j THEN None ELSE Some(j.string)

JsonDump(c) == [c EXCEPT !.region = JsonOpt(c.region), !.idioma = JsonOpt(c.idioma)]

JsonLoad(j) == [j EXCEPT !.region = PyOpt(j.region), !.idioma = PyOpt(j.idioma)]

\* The list json.load returns for the log file ([] when the file is absent).
LoadCampaigns(log) ==
    IF log.exists THEN [i \in 1..Len(log.doc) |-> JsonLoad(log.doc[i])] ELSE <<>>

\* A save that writes the new campaign alone, dropping the ones on file.
save_campaign_Overwrites(log, campaign_data) ==
    [exists |-> TRUE, doc |-> <<JsonDump(campaign_data)>>]

save_campaign(log, campaign_data) ==
    LET campaigns == Append(LoadCampaigns(log), campaign_data)
    IN  [exists |-> TRUE,
         doc |-> [i \in 1..Len(campaigns) |-> JsonDump(campaigns[i])]]

AbsentLog == [exists |-> FALSE, doc |-> <<>>]

(***************************************************************************)
(* get_campaign_stats()                                                    *)
(***************************************************************************)
\* sum(c['total_enviados'] for c in campaigns)
RECURSIVE SumEnviados(_)
SumEnviados(campaigns) ==
    IF campaigns = <<>> THEN 0
    ELSE Head(campaigns).total_enviados + SumEnviados(Tail(campaigns))

\* A key without the sentinel: a campaign without a region is counted under ''.
RegionKey_NoSentinel(c) ==
    LET region == IF "region" \in DOMAIN c THEN c.region ELSE Some("Desconocida")
    IN  IF Truthy(region) THEN region[1] ELSE ""

\* c.get('region', 'Desconocida') or 'Todas'
RegionKey(c) ==
    LET region == IF "region" \in DOMAIN c THEN c.region ELSE Some("Desconocida")
    IN  IF Truthy(region) THEN region[1] ELSE "Todas"

\* c.get('idioma', 'Auto') or 'Auto'
IdiomaKey(c) ==
    LET idioma == IF "idioma" \in DOMAIN c THEN c.idioma ELSE Some("Auto")
    IN  IF Truthy(idioma) THEN idioma[1] ELSE "Auto"

\* The dict the loop builds from the keys of the campaigns, taken in order: each
\* key with the number of campaigns that have it.
CountBy(keys) ==
    [k \in {keys[i] : i \in 1..Len(keys)} |->
        Cardinality({i \in 1..Len(keys) : keys[i] = k})]

get_campaign_stats(log) ==
    IF ~log.exists THEN [message |-> "No hay campañas registradas"]
    ELSE LET campaigns == LoadCampaigns(log)
         IN  ("total_campañas" :> Len(campaigns))
             @@ ("total_emails_enviados" :> SumEnviados(campaigns))
             @@ ("campañas_por_region" :>
                    CountBy([i \in 1..Len(campaigns) |-> RegionKey(campaigns[i])]))
             @@ ("campañas_por_idioma" :>
                    CountBy([i \in 1..Len(campaigns) |-> IdiomaKey(campaigns[i])]))

(***************************************************************************)
(* batch_outreach(region, language, max_emails, dry_run)                   *)
(***************************************************************************)
\* One entry of campaign_results.
Result(library, language, dry_run, t) ==
    LET email_data == generate_email(library, language)
    IN  [biblioteca |-> library["nombre"],
         email |-> library["email"],
         ciudad |-> library["ciudad"],
         pais |-> library["pais"],
         idioma |-> email_data.language,
         asunto |-> email_data.subject,
         estado |-> IF dry_run THEN "simulado" ELSE "enviado",
         fecha |-> IsoFormat(t)]

ResultKeys ==
    <<"biblioteca", "email", "ciudad", "pais", "idioma", "asunto", "estado", "fecha">>

\* The readings of the clock one call makes.  For the i-th library of the loop:
\* the 'fecha' of its result and, in a real run, the date track_contact writes.
\* After a loop of n libraries: the campaign's id, its fecha, the report's name.
ReadsPerLibrary(dry_run) == IF dry_run THEN 1 ELSE 2

ResultRead(i, dry_run) == (i - 1) * ReadsPerLibrary(dry_run) + 1

TrackRead(i) == 2 * i

IdRead(n, dry_run) == n * ReadsPerLibrary(dry_run) + 1

FechaRead(n, dry_run) == n * ReadsPerLibrary(dry_run) + 2

ReportRead(n, dry_run) == n * ReadsPerLibrary(dry_run) + 3

\* A loop that marks its first library and none of the others.
TrackEach_StopsAfterFirst(db, libs, clock, i) ==
    IF i > Len(libs) \/ ~db.exists THEN db
    ELSE track_contact(db, libs[i]["email"], "enviado", "", Reading(clock, TrackRead(i)))

\* The store after track_contact(library['email'], 'enviado') for each library in
\* turn, from the i-th on.  open(.., 'r') in track_contact raises when the file is
\* absent, which would end the loop; load_libraries has created the file before
\* the loop starts.
RECURSIVE TrackEach(_, _, _, _)
TrackEach(db, libs, clock, i) ==
    IF i > Len(libs) \/ ~db.exists THEN db
    ELSE TrackEach(track_contact(db, libs[i]["email"], "enviado", "",
                                 Reading(clock, TrackRead(i))),
                   libs, clock, i + 1)

\* An early return that is never taken.
NoLibraries_Never(libraries) == FALSE

\* An early return taken for a single library as well.
NoLibraries_AtMostOne(libraries) == Len(libraries) <= 1

\* `if len(libraries) == 0`: the early return.
NoLibraries(libraries) == Len(libraries) = 0

\* A total that counts the entries whose estado is 'enviado' only.
TotalEnviados_CountsSent(campaign_results) ==
    Cardinality({i \in 1..Len(campaign_results) : campaign_results[i].estado = "enviado"})

\* 'total_enviados': len(campaign_results)
TotalEnviados(campaign_results) == Len(campaign_results)

\* A loop without its track_contact call.
StoreAfterLoop_NeverTracks(db, batch, dry_run, clock) == db

\* A loop that records the contact in a dry run too.
StoreAfterLoop_IgnoresDryRun(db, batch, dry_run, clock) == TrackEach(db, batch, clock, 1)

\* The store after the loop: `if not dry_run: self.track_contact(...)`.
StoreAfterLoop(db, batch, dry_run, clock) ==
    IF dry_run THEN db ELSE TrackEach(db, batch, clock, 1)

\* A report of the entries that were sent: the entries of a dry run are left out.
Report_OnlySent(campaign_results) ==
    LET sent == SelectSeq(campaign_results, LAMBDA r : r.estado = "enviado")
    IN  IF sent # <<>> THEN DictWriter(ResultKeys, sent) ELSE <<>>

\* The report file: a header and one line per result, or nothing at all.
Report(campaign_results) ==
    IF campaign_results # <<>> THEN DictWriter(ResultKeys, campaign_results) ELSE <<>>

\* The number of readings of the clock a call makes that is given this list by
\* load_libraries and runs to its end.
BatchReads(libraries, max_emails, dry_run) ==
    IF NoLibraries(libraries) THEN 0
    ELSE ReportRead(Len(SliceTo(libraries, max_emails)), dry_run)

\* The call from the list load_libraries has returned on (db0 is the store file
\* load_libraries leaves): the files after it, the value returned and the number
\* of readings of the clock made.  open(report_file, 'w') replaces a report of
\* the same name.
batch_outreach_on(libraries, db0, log, reps, region, language, max_emails, dry_run, clock) ==
    LET batch == SliceTo(libraries, max_emails)
        n == Len(batch)
        campaign_results ==
            [i \in 1..n |-> Result(batch[i], language, dry_run,
                                   Reading(clock, ResultRead(i, dry_run)))]
        campaign_data ==
            [id |-> StrftimeStamp(Reading(clock, IdRead(n, dry_run))),
             fecha |-> IsoFormat(Reading(clock, FechaRead(n, dry_run))),
             region |-> region,
             idioma |-> language,
             total_enviados |-> TotalEnviados(campaign_results),
             modo |-> IF dry_run THEN "simulacion" ELSE "real",
             resultados |-> campaign_results]
        report_file == StrftimeStamp(Reading(clock, ReportRead(n, dry_run)))
    IN  IF NoLibraries(libraries)
        THEN [libraries_db |-> db0, campaigns_db |-> log, reports |-> reps,
              reads |-> 0,
              value |-> [status |-> "no_libraries"]]
        ELSE [libraries_db |-> StoreAfterLoop(db0, batch, dry_run, clock),
              campaigns_db |-> save_campaign(log, campaign_data),
              reports |-> (report_file :> Report(campaign_results)) @@ reps,
              reads |-> ReportRead(n, dry_run),
              value |-> [status |-> "success",
                         total_enviados |-> TotalEnviados(campaign_results),
                         report_file |-> report_file,
                         campaign_data |-> campaign_data]]

\* The whole call.
batch_outreach(db, log, reps, region, language, max_emails, dry_run, clock) ==
    batch_outreach_on(load_libraries(db, region, language, TRUE),
                      create_library_template(db),
                      log, reps, region, language, max_emails, dry_run, clock)

\* batch_outreach has no try/except: an exception of one of its calls ends it.
\* The fault is an open() that raises (the file has become unreadable), in the
\* track_contact call that follows `after` completed ones, or in save_campaign.
\* Whether the call gets as far as the fault:
FaultReached(db, region, language, max_emails, dry_run, fault) ==
    LET libraries == load_libraries(db, region, language, TRUE)
        batch == SliceTo(libraries, max_emails)
    IN  /\ ~NoLibraries(libraries)
        /\ fault.call = "track_contact" => (~dry_run /\ fault.after < Len(batch))

\* The readings made before the fault: track_contact opens the file before it
\* reads the clock, and save_campaign is called with the id and the fecha made.
FaultReads(n, dry_run, fault) ==
    IF fault.call = "track_contact" THEN ResultRead(fault.after + 1, dry_run)
    ELSE FechaRead(n, dry_run)

\* A call whose error is caught per contact: the contacts after the failed one
\* are processed all the same.
batch_outreach_raises_AndContinues(db, log, reps, region, language, max_emails, dry_run, clock, fault) ==
    LET db0 == create_library_template(db)
        libraries == load_libraries(db, region, language, TRUE)
        batch == SliceTo(libraries, max_emails)
        done == IF fault.call = "track_contact"
                THEN SubSeq(batch, 1, fault.after) \o SubSeq(batch, fault.after + 2, Len(batch))
                ELSE batch
    IN  [libraries_db |-> StoreAfterLoop(db0, done, dry_run, clock),
         campaigns_db |-> log,
         reports |-> reps,
         reads |-> FaultReads(Len(batch), dry_run, fault),
         value |-> [status |-> "raised", raised_by |-> fault.call]]

\* The files after the call, and the exception that leaves it.
batch_outreach_raises(db, log, reps, region, language, max_emails, dry_run, clock, fault) ==
    LET db0 == create_library_template(db)
        libraries == load_libraries(db, region, language, TRUE)
        batch == SliceTo(libraries, max_emails)
        done == IF fault.call = "track_contact" THEN SubSeq(batch, 1, fault.after)
                ELSE batch
    IN  [libraries_db |-> StoreAfterLoop(db0, done, dry_run, clock),
         campaigns_db |-> log,
         reports |-> reps,
         reads |-> FaultReads(Len(batch), dry_run, fault),
         value |-> [status |-> "raised", raised_by |-> fault.call]]

\* A call that writes its report before it saves the campaign: the exception
\* of the report's open() leaves the log as it was.
batch_outreach_report_raises_BeforeLog(db, log, reps, region, language, max_emails, dry_run, clock) ==
    LET out == batch_outreach(db, log, reps, region, language, max_emails, dry_run, clock)
    IN  [libraries_db |-> out.libraries_db,
         campaigns_db |-> log,
         reports |-> reps,
         reads |-> out.reads,
         value |-> [status |-> "raised", raised_by |-> "report"]]

\* batch_outreach whose open(report_file, 'w') raises (reports_dir has been
\* removed or cannot be written): the loop and save_campaign have run, the
\* report's name is made and no report file is, and the exception leaves the call.
batch_outreach_report_raises(db, log, reps, region, language, max_emails, dry_run, clock) ==
    LET out == batch_outreach(db, log, reps, region, language, max_emails, dry_run, clock)
    IN  [libraries_db |-> out.libraries_db,
         campaigns_db |-> out.campaigns_db,
         reports |-> reps,
         reads |-> out.reads,
         value |-> [status |-> "raised", raised_by |-> "report"]]

\* batch_outreach on a store file that exists and of which `read` rows can be
\* read before the decoder fails: load_libraries returns the rows it has kept
\* (its except clause), and the call goes on with them.  A dry run never opens
\* the store again.  A real run calls track_contact for its first library, whose
\* open(.., 'r') and list(reader) read the whole file outside any try: the
\* decoder's error leaves batch_outreach after the first result is built, and
\* nothing is written.
batch_outreach_unreadable(db, log, reps, region, language, max_emails, dry_run, clock, read) ==
    LET libraries == load_libraries_unreadable(db, region, language, TRUE, read)
        batch == SliceTo(libraries, max_emails)
    IN  IF ~NoLibraries(libraries) /\ ~dry_run /\ batch # <<>>
        THEN [libraries_db |-> db, campaigns_db |-> log, reports |-> reps,
              reads |-> ResultRead(1, dry_run),
              value |-> [status |-> "raised", raised_by |-> "track_contact"]]
        ELSE batch_outreach_on(libraries, db, log, reps, region, language,
                               max_emails, dry_run, clock)

(***************************************************************************)
(* sales_dashboard.py: track_kpi and get_kpi_trend on kpi_history.json;    *)
(* price_monitor.py: track_price_history on price_history_<asin>.json.     *)
(* A JSON object is a function on its keys, a JSON array a sequence; the   *)
(* names, timestamps and integer values written are read back as written.  *)
(***************************************************************************)
KpiWindow == 90

PriceWindow == 90

\* Python's seq[start:], for every integer start.
SliceFrom(seq, start) ==
    LET from == IF start < 0 THEN Max(Len(seq) + start, 0) ELSE Min(start, Len(seq))
    IN  SubSeq(seq, from + 1, Len(seq))

EmptyDict == [k \in {} |-> <<>>]

AbsentJson == [exists |-> FALSE, doc |-> <<>>]

\* The dict json.load returns for kpi_history.json ({} when the file is absent).
LoadKpis(file) == IF file.exists THEN file.doc ELSE EmptyDict

\* A history cut to its first 90 entries: the oldest are kept.
track_kpi_KeepsOldest(file, metric_name, value, timestamp, t) ==
    LET stamp == IF ~Truthy(timestamp) THEN IsoFormat(t) ELSE timestamp[1]
        kpis == LoadKpis(file)
        old == IF metric_name \in DOMAIN kpis THEN kpis[metric_name] ELSE <<>>
        history == Append(old, [timestamp |-> stamp, value |-> value])
    IN  [m \in DOMAIN kpis \cup {metric_name} |->
            IF m = metric_name THEN SubSeq(history, 1, Min(Len(history), KpiWindow))
            ELSE kpis[m]]

\* The dict track_kpi writes to the file and returns.
track_kpi(file, metric_name, value, timestamp, t) ==
    LET stamp == IF ~Truthy(timestamp) THEN IsoFormat(t) ELSE timestamp[1]
        kpis == LoadKpis(file)
        old == IF metric_name \in DOMAIN kpis THEN kpis[metric_name] ELSE <<>>
        history == Append(old, [timestamp |-> stamp, value |-> value])
    IN  [m \in DOMAIN kpis \cup {metric_name} |->
            IF m = metric_name THEN SliceFrom(history, 0 - KpiWindow) ELSE kpis[m]]

\* The list track_price_history writes to the file of an ASIN and returns.
track_price_history(file, current_price, t) ==
    LET history == IF file.exists THEN file.doc ELSE <<>>
    IN  SliceFrom(Append(history, [fecha |-> IsoFormat(t), precio |-> current_price]),
                  0 - PriceWindow)

RECURSIVE Sum(_)
Sum(values) == IF values = <<>> THEN 0 ELSE Head(values) + Sum(Tail(values))

(***************************************************************************)
(* Python's float: the IEEE 754 binary64 numbers, rounded to nearest with  *)
(* ties to even.  A 53-bit significand does not fit a 32-bit integer, so   *)
(* a natural number is kept as its digits in base 2^15, least significant  *)
(* first and without leading zeros (<<>> is 0).  No number the histories   *)
(* produce is subnormal or infinite.                                       *)
(***************************************************************************)
Limb == 32768

LimbBits == 15

Precision == 53

RECURSIVE Big(_)
Big(n) == IF n = 0 THEN <<>> ELSE <<n % Limb>> \o Big(n \div Limb)

Odd(a) == a # <<>> /\ a[1] % 2 = 1

BitLen(a) ==
    IF a = <<>> THEN 0
    ELSE LimbBits * (Len(a) - 1)
            + (CHOOSE k \in 1..LimbBits : 2^(k - 1) <= a[Len(a)] /\ a[Len(a)] < 2^(k))

\* -1, 0 or 1 as a < b, a = b or a > b.
Cmp(a, b) ==
    IF Len(a) < Len(b) THEN -1
    ELSE IF Len(a) > Len(b) THEN 1
    ELSE IF a = b THEN 0
    ELSE LET i == CHOOSE i \in 1..Len(a) : a[i] # b[i] /\ \A j \in (i + 1)..Len(a) : a[j] = b[j]
         IN  IF a[i] < b[i] THEN -1 ELSE 1

RECURSIVE AddFrom(_, _, _, _)
AddFrom(a, b, i, carry) ==
    IF i > Len(a) /\ i > Len(b) THEN (IF carry = 0 THEN <<>> ELSE <<carry>>)
    ELSE LET s == (IF i <= Len(a) THEN a[i] ELSE 0) + (IF i <= Len(b) THEN b[i] ELSE 0) + carry
         IN  <<s % Limb>> \o AddFrom(a, b, i + 1, s \div Limb)

Add(a, b) == AddFrom(a, b, 1, 0)

RECURSIVE Trim(_)
Trim(a) == IF a # <<>> /\ a[Len(a)] = 0 THEN Trim(SubSeq(a, 1, Len(a) - 1)) ELSE a

RECURSIVE SubFrom(_, _, _, _)
SubFrom(a, b, i, borrow) ==
    IF i > Len(a) THEN <<>>
    ELSE LET s == a[i] - (IF i <= Len(b) THEN b[i] ELSE 0) - borrow
         IN  IF s < 0 THEN <<s + Limb>> \o SubFrom(a, b, i + 1, 1)
             ELSE <<s>> \o SubFrom(a, b, i + 1, 0)

\* a - b, for a >= b.
Sub(a, b) == Trim(SubFrom(a, b, 1, 0))

RECURSIVE MulSmallFrom(_, _, _, _)
MulSmallFrom(a, k, i, carry) ==
    IF i > Len(a) THEN (IF carry = 0 THEN <<>> ELSE <<carry>>)
    ELSE LET s == a[i] * k + carry
         IN  <<s % Limb>> \o MulSmallFrom(a, k, i + 1, s \div Limb)

\* a * k, for 0 <= k < 2^15.
MulSmall(a, k) == IF k = 0 THEN <<>> ELSE MulSmallFrom(a, k, 1, 0)

RECURSIVE Mul(_, _)
Mul(a, b) ==
    IF a = <<>> \/ b = <<>> THEN <<>>
    ELSE Add(MulSmall(a, b[1]), Trim(<<0>> \o Mul(a, Tail(b))))

\* a * 2^s.
Shl(a, s) == IF a = <<>> THEN <<>> ELSE [i \in 1..(s \div LimbBits) |-> 0] \o MulSmall(a, 2^(s % LimbBits))

RECURSIVE DivSmall(_, _)
\* Quotient and remainder of a by d, for 0 < d < 2^15.
DivSmall(a, d) ==
    IF a = <<>> THEN [q |-> <<>>, r |-> 0]
    ELSE LET high == DivSmall(Tail(a), d)
             cur == high.r * Limb + a[1]
         IN  [q |-> Trim(<<cur \div d>> \o high.q), r |-> cur % d]

\* a \div 2^s.
Shr(a, s) == DivSmall(SubSeq(a, s \div LimbBits + 1, Len(a)), 2^(s % LimbBits)).q

RECURSIVE DivModBits(_, _, _, _, _)
\* Long division in base 2 over the bits of a from bit i down to bit last: h
\* is the quotient and the remainder by b of the bits of a above bit i, the
\* result those of the bits from bit last up.
DivModBits(a, b, i, last, h) ==
    IF i < last THEN h
    ELSE LET rest == Add(Add(h.r, h.r),
                         Big((a[i \div LimbBits + 1] \div 2^(i % LimbBits)) % 2))
         IN  IF Cmp(rest, b) >= 0
             THEN DivModBits(a, b, i - 1, last,
                             [q |-> Add(Add(h.q, h.q), <<1>>), r |-> Sub(rest, b)])
             ELSE DivModBits(a, b, i - 1, last, [q |-> Add(h.q, h.q), r |-> rest])

RECURSIVE DivModLimbs(_, _, _, _)
\* The same over the digits of a from digit j down to the first.
DivModLimbs(a, b, j, h) ==
    IF j = 0 THEN h
    ELSE DivModLimbs(a, b, j - 1, DivModBits(a, b, LimbBits * j - 1, LimbBits * (j - 1), h))

\* Quotient and remainder of a by b > 0: short division by a b of one digit,
\* else long division, which starts below the leading Len(b) - 1 digits of a
\* (they are less than b).
DivMod(a, b) ==
    IF Len(b) = 1
    THEN LET h == DivSmall(a, b[1]) IN [q |-> h.q, r |-> Big(h.r)]
    ELSE LET j == Max(0, Len(a) - Len(b) + 1)
         IN  DivModLimbs(a, b, j, [q |-> <<>>, r |-> Trim(SubSeq(a, j + 1, Len(a)))])

\* A float is sign * m * 2^e with 2^52 <= m < 2^53, or zero.
FloatZero == [sign |-> 0, m |-> <<>>, e |-> 0]

\* n with its bits below bit s rounded away, to nearest and on a tie to even;
\* `inexact` says that the number rounded is a little more than n.
RoundBits(n, s, inexact) ==
    IF s = 0 THEN n
    ELSE LET q == Shr(n, s)
             up == /\ Odd(Shr(n, s - 1))
                   /\ inexact \/ Shl(Shr(n, s - 1), s - 1) # n \/ Odd(q)
         IN  IF up THEN Add(q, <<1>>) ELSE q

\* The float nearest to sign * n * 2^e (n > 0; a little more than n when
\* `inexact`, and then n has more than 54 bits).
Nearest(sign, n, e, inexact) ==
    LET len == BitLen(n)
    IN  IF len <= Precision
        THEN [sign |-> sign, m |-> Shl(n, Precision - len), e |-> e - (Precision - len)]
        ELSE LET m == RoundBits(n, len - Precision, inexact)
             IN  IF BitLen(m) > Precision
                 THEN [sign |-> sign, m |-> Shr(m, 1), e |-> e + len - Precision + 1]
                 ELSE [sign |-> sign, m |-> m, e |-> e + len - Precision]

\* n / d for ints n and d > 0 (and the float of a literal n/d): the float
\* nearest to the quotient.
TrueDiv(n, d) ==
    IF n = 0 THEN FloatZero
    ELSE LET a == Big(IF n < 0 THEN 0 - n ELSE n)
             b == Big(d)
             k == Max(0, Precision + 2 + BitLen(b) - BitLen(a))
             h == DivMod(Shl(a, k), b)
         IN  Nearest(IF n < 0 THEN -1 ELSE 1, h.q, 0 - k, h.r # <<>>)

FloatMul(x, y) ==
    IF x.sign = 0 \/ y.sign = 0 THEN FloatZero
    ELSE Nearest(x.sign * y.sign, Mul(x.m, y.m), x.e + y.e, FALSE)

\* x / y, for y # 0.
FloatDiv(x, y) ==
    IF x.sign = 0 THEN FloatZero
    ELSE LET h == DivMod(Shl(x.m, Precision + 2), y.m)
         IN  Nearest(x.sign * y.sign, h.q, x.e - y.e - (Precision + 2), h.r # <<>>)

FloatSub(x, y) ==
    IF y.sign = 0 THEN x
    ELSE IF x.sign = 0 THEN [y EXCEPT !.sign = 0 - y.sign]
    ELSE LET e == Min(x.e, y.e)
             a == Shl(x.m, x.e - e)
             b == Shl(y.m, y.e - e)
         IN  IF x.sign # y.sign THEN Nearest(x.sign, Add(a, b), e, FALSE)
             ELSE IF Cmp(a, b) = 0 THEN FloatZero
             ELSE IF Cmp(a, b) > 0 THEN Nearest(x.sign, Sub(a, b), e, FALSE)
             ELSE Nearest(0 - x.sign, Sub(b, a), e, FALSE)

\* x < y.
FloatLess(x, y) ==
    IF x.sign # y.sign THEN x.sign < y.sign
    ELSE IF x.sign = 0 THEN FALSE
    ELSE IF x.e # y.e THEN (x.sign = 1) = (x.e < y.e)
    ELSE IF x.sign = 1 THEN Cmp(x.m, y.m) < 0
    ELSE Cmp(x.m, y.m) > 0

\* round(x, ndigits): the multiple of 10^-ndigits nearest to the float's exact
\* value, the even one of two equally near, as the count of 10^-ndigits in it
\* (round(avg, 2) = 16.67 is 1667).
round(x, ndigits) ==
    IF x.sign = 0 THEN 0
    ELSE LET n == Mul(x.m, Big(10^ndigits))
             count == IF x.e >= 0 THEN Shl(n, x.e) ELSE RoundBits(n, 0 - x.e, FALSE)
         IN  x.sign * Sum([i \in 1..Len(count) |-> count[i] * Limb^(i - 1)])

\* The value get_kpi_trend returns: None, or Some(dict).  'average' and
\* 'change_percent' are the floats round(..., 2) returns, written as their
\* count of hundredths.
get_kpi_trend(file, metric_name, days) ==
    IF ~file.exists \/ metric_name \notin DOMAIN file.doc THEN None
    ELSE LET data == SliceFrom(file.doc[metric_name], 0 - days)
             values == [i \in 1..Len(data) |-> data[i].value]
             avg == TrueDiv(Sum(values), Len(values))
             first_half == SubSeq(values, 1, Len(values) \div 2)
             second_half == SubSeq(values, Len(values) \div 2 + 1, Len(values))
             first_avg == IF first_half # <<>>
                          THEN TrueDiv(Sum(first_half), Len(first_half)) ELSE FloatZero
             second_avg == IF second_half # <<>>
                           THEN TrueDiv(Sum(second_half), Len(second_half)) ELSE FloatZero
             trend == IF FloatLess(FloatMul(first_avg, TrueDiv(11, 10)), second_avg) THEN "up"
                      ELSE IF FloatLess(second_avg, FloatMul(first_avg, TrueDiv(9, 10)))
                      THEN "down"
                      ELSE "stable"
         IN  IF Len(data) < 2 THEN Some([trend |-> "insufficient_data"])
             ELSE Some([metric |-> metric_name,
                        period_days |-> days,
                        average |-> round(avg, 2),
                        trend |-> trend,
                        change_percent |->
                            IF first_avg.sign # 0
                            THEN round(FloatMul(FloatDiv(FloatSub(second_avg, first_avg),
                                                         first_avg),
                                                TrueDiv(100, 1)), 2)
                            ELSE 0,
                        data_points |-> Len(data)])

(***************************************************************************)
(* Initial stores and call arguments.                                       *)
(***************************************************************************)
\* Contacts of a store the user keeps.  Lib C has a region that differs from
\* "Europa" only in case and a language without a template; Lib D has been
\* contacted in an earlier session.
LibA == <<"Lib A", "a@x.org", "Madrid", "España", "Europa", "Publica", "ES", "No", "", "", "">>

LibB == <<"Lib B", "b@x.org", "London", "UK", "Europa", "Nacional", "EN", "No", "", "", "">>

LibC == <<"Lib C", "c@x.org", "Roma", "Italia", "europa", "Publica", "IT", "No", "", "", "">>

LibD == <<"Lib D", "d@x.org", "Paris", "Francia", "Europa", "Publica", "EN", "Si", "2025-12-31", "enviado", "">>

\* The store files a session may start from: no file (the seed is written on
\* first use), a file with no contact, and files of contacts in several orders.
InitialStores ==
    { AbsentFile,
      File(<<Header>>),
      File(<<Header, LibD>>),
      File(<<Header, LibC, LibA>>),
      File(<<Header, LibA, LibD, LibB, LibC>>) }

\* A campaign of an earlier session, already in the log.
PriorCampaign ==
    [id |-> "20251231_235959",
     fecha |-> "2025-12-31T23:59:59",
     region |-> None,
     idioma |-> Some("EN"),
     total_enviados |-> 1,
     modo |-> "real",
     resultados |->
        <<[biblioteca |-> "Lib D", email |-> "d@x.org", ciudad |-> "Paris",
           pais |-> "Francia", idioma |-> "EN", asunto |-> templates["EN"].subject,
           estado |-> "enviado", fecha |-> "2025-12-31T23:59:59"]>>]

\* Two campaigns before that one: a dry run of two contacts of the region
\* Europa, and a run with language '' and max_emails 0.
EuropaCampaign ==
    [id |-> "20251229_100000",
     fecha |-> "2025-12-29T10:00:00",
     region |-> Some("Europa"),
     idioma |-> None,
     total_enviados |-> 2,
     modo |-> "simulacion",
     resultados |->
        <<[biblioteca |-> "Lib D", email |-> "d@x.org", ciudad |-> "Paris",
           pais |-> "Francia", idioma |-> "EN", asunto |-> templates["EN"].subject,
           estado |-> "simulado", fecha |-> "2025-12-29T10:00:00"],
          [biblioteca |-> "Lib A", email |-> "a@x.org", ciudad |-> "Madrid",
           pais |-> "España", idioma |-> "ES", asunto |-> templates["ES"].subject,
           estado |-> "simulado", fecha |-> "2025-12-29T10:00:00"]>>]

EmptyCampaign ==
    [id |-> "20251230_100000",
     fecha |-> "2025-12-30T10:00:00",
     region |-> None,
     idioma |-> Some(""),
     total_enviados |-> 0,
     modo |-> "simulacion",
     resultados |-> <<>>]

InitialLogs ==
    { AbsentLog,
      save_campaign(AbsentLog, PriorCampaign),
      save_campaign(save_campaign(save_campaign(AbsentLog, EuropaCampaign),
                                  EmptyCampaign), PriorCampaign) }

RegionArgs == {None, Some("Europa"), Some("Nonexistent")}

LoadRegionArgs == RegionArgs \cup {Some("")}

LanguageArgs == {None, Some("EN")}

\* The filters of a batch: every region with every language, and language ''.
BatchFilterArgs == (RegionArgs \X LanguageArgs) \cup {<<None, Some("")>>}

MaxEmailsArgs == {0 - 1, 0, 1, 2}

\* One address of the user's stores and one of the seed: each store misses one.
EmailArgs == {"a@x.org", "d@x.org", "contacto@bne.es"}

StatusArgs == {"enviado", "respondido"}

NotesArgs == {"", "llamar"}

\* The library dicts generate_email is called with: a row of the store, a dict
\* without a name and without a language, and a row whose name is empty and
\* whose language has no template.
EmailLibraryArgs ==
    { [nombre |-> "Lib B", email |-> "b@x.org", idioma_preferido |-> "EN"],
      [email |-> "n@x.org"],
      [nombre |-> "", email |-> "e@x.org", idioma_preferido |-> "IT"] }

\* None, a language with a template and one without.
EmailLanguageArgs == {None, Some("FR"), Some("DE")}

\* The calls of batch_outreach that meet a fault.
FaultFilterArgs == {<<None, None>>, <<Some("Europa"), Some("EN")>>}

FaultMaxEmailsArgs == {1, 2}

FaultArgs ==
    { [call |-> "track_contact", after |-> 0],
      [call |-> "track_contact", after |-> 1],
      [call |-> "save_campaign"] }

\* The rows read before the reader raises.
ReadArgs == 0..4

\* The campaigns handed to save_campaign by a caller other than batch_outreach:
\* one made up by hand, and one the log may hold already.
ManualCampaign ==
    [id |-> "manual",
     fecha |-> "2026-01-01T00:00:00",
     region |-> None,
     idioma |-> None,
     total_enviados |-> 7,
     modo |-> "real",
     resultados |-> <<>>]

CampaignArgs == {ManualCampaign, PriorCampaign}

\* The KPI and price histories a session may start from: no file, a short
\* history, and histories one entry short of the window and as long as it.
History(n) ==
    [i \in 1..n |->
        [timestamp |-> "2025-12-01T00:" \o TwoDigits(i \div 60) \o ":" \o TwoDigits(i % 60),
         value |-> 10 + 5 * (i % 3)]]

PriceHistory(n) ==
    [i \in 1..n |->
        [fecha |-> "2025-12-01T00:" \o TwoDigits(i \div 60) \o ":" \o TwoDigits(i % 60),
         precio |-> 3 + (i % 2)]]

JsonFile(doc) == [exists |-> TRUE, doc |-> doc]

InitialKpiFiles ==
    { AbsentJson,
      JsonFile("sales" :> History(2)),
      JsonFile(("sales" :> History(KpiWindow - 1)) @@ ("reviews" :> History(1))),
      JsonFile(("sales" :> History(KpiWindow)) @@ ("reviews" :> History(3))) }

AsinArgs == {"B00PIPTRI8", "B0CLQ2RJP3"}

InitialPriceFiles ==
    { [asin \in AsinArgs |-> AbsentJson],
      ("B00PIPTRI8" :> JsonFile(PriceHistory(PriceWindow - 1))) @@
          ("B0CLQ2RJP3" :> JsonFile(PriceHistory(2))),
      ("B00PIPTRI8" :> JsonFile(PriceHistory(PriceWindow))) @@
          ("B0CLQ2RJP3" :> AbsentJson) }

MetricArgs == {"sales", "reviews"}

TrendMetricArgs == MetricArgs \cup {"rank"}

ValueArgs == {10, 30}

TimestampArgs == {None, Some("2026-02-01T09:00:00")}

DaysArgs == {0, 1, 2, 7}

PriceArgs == {3, 4}

(***************************************************************************)
(* The state machine.                                                      *)
(***************************************************************************)
Init ==
    /\ libraries_db \in InitialStores
    /\ campaigns_db \in InitialLogs
    /\ reports = <<>>
    /\ now = 0
    /\ calls = 0
    /\ ret = [op |-> "init"]
    /\ kpi_file = AbsentJson
    /\ price_files = [asin \in AsinArgs |-> AbsentJson]

\* The sequences of n seconds of lo..hi that never go back: one for each choice
\* of the numbers of readings made before the clock reaches lo + 1, .., hi.
NonDecreasing(n, lo, hi) ==
    LET changes == {p \in [1..(hi - lo) -> 0..n] :
                       \A j \in 1..(hi - lo - 1) : p[j] <= p[j + 1]}
    IN  {[k \in 1..n |-> lo + Cardinality({j \in 1..(hi - lo) : p[j] < k})] :
            p \in changes}

\* The clocks a call of `reads` readings can be made with: the second can
\* change before any of its readings, and time does not go back.
Clocks(reads) ==
    {[t |-> now, readings |-> c] : c \in NonDecreasing(reads, now, MaxClock)}

\* The clock a call leaves: its last reading, or the clock as it was.
ClockAfter(clock, reads) == IF reads = 0 THEN clock.t ELSE Reading(clock, reads)

\* The readings made by a call that an exception of track_contact's open() or of
\* save_campaign leaves.
RaisesReads(db, region, language, max_emails, dry_run, fault) ==
    FaultReads(Len(SliceTo(load_libraries(db, region, language, TRUE), max_emails)),
               dry_run, fault)

\* The readings made by a call on a store read in part: a real run that has a
\* library to process is left by track_contact's error after its first reading.
UnreadableReads(db, region, language, max_emails, dry_run, read) ==
    LET libraries == load_libraries_unreadable(db, region, language, TRUE, read)
    IN  IF ~NoLibraries(libraries) /\ ~dry_run /\ SliceTo(libraries, max_emails) # <<>>
        THEN ResultRead(1, dry_run)
        ELSE BatchReads(libraries, max_emails, dry_run)

\* create_library_template, load_libraries, generate_email, get_campaign_stats
\* and save_campaign do not read the clock.
CreateLibraryTemplate ==
    /\ calls < MaxOps
    /\ libraries_db' = create_library_template(libraries_db)
    /\ ret' = [op |-> "create_library_template"]
    /\ calls' = calls + 1
    /\ UNCHANGED <<now, kpi_file, price_files>>
    /\ UNCHANGED <<campaigns_db, reports>>

LoadLibraries ==
    \E region \in LoadRegionArgs, language \in LanguageArgs, only_new \in BOOLEAN :
        /\ calls < MaxOps
        /\ libraries_db' = create_library_template(libraries_db)
        /\ ret' = [op |-> "load_libraries", region |-> region, language |-> language,
                   only_new |-> only_new,
                   value |-> load_libraries(libraries_db, region, language, only_new)]
        /\ calls' = calls + 1
        /\ UNCHANGED <<now, kpi_file, price_files>>
        /\ UNCHANGED <<campaigns_db, reports>>

\* open(self.libraries_db, 'r') raises FileNotFoundError when the file is absent:
\* the call then leaves no file behind.
TrackContactCall(db, library_email, status, notes, t) ==
    IF db.exists THEN track_contact(db, library_email, status, notes, t) ELSE db

\* The clock is read after the file: a call that raises has not read it.
TrackContact ==
    \E library_email \in EmailArgs, status \in StatusArgs, notes \in NotesArgs :
        LET reads == IF libraries_db.exists THEN 1 ELSE 0
        IN  \E clock \in Clocks(reads) :
                /\ calls < MaxOps
                /\ ret' = [op |-> "track_contact", library_email |-> library_email,
                           status |-> status, notes |-> notes,
                           at |-> ClockAfter(clock, reads),
                           raised |-> ~libraries_db.exists]
                /\ libraries_db' = TrackContactCall(libraries_db, library_email, status,
                                                    notes, Reading(clock, 1))
                /\ now' = ClockAfter(clock, reads)
                /\ calls' = calls + 1
                /\ UNCHANGED <<kpi_file, price_files>>
                /\ UNCHANGED <<campaigns_db, reports>>

BatchOutreach ==
    \E filter \in BatchFilterArgs, max_emails \in MaxEmailsArgs, dry_run \in BOOLEAN :
        LET region == filter[1]
            language == filter[2]
            reads == BatchReads(load_libraries(libraries_db, region, language, TRUE),
                                max_emails, dry_run)
        IN  \E clock \in Clocks(reads) :
                LET out == batch_outreach(libraries_db, campaigns_db, reports,
                                          region, language, max_emails, dry_run, clock)
                IN  /\ calls < MaxOps
                    /\ libraries_db' = out.libraries_db
                    /\ campaigns_db' = out.campaigns_db
                    /\ reports' = out.reports
                    /\ ret' = [op |-> "batch_outreach", region |-> region,
                               language |-> language, max_emails |-> max_emails,
                               dry_run |-> dry_run, at |-> now, clock |-> clock,
                               value |-> out.value]
                    /\ now' = ClockAfter(clock, out.reads)
                    /\ calls' = calls + 1
                    /\ UNCHANGED <<kpi_file, price_files>>

BatchOutreachRaises ==
    \E filter \in FaultFilterArgs, max_emails \in FaultMaxEmailsArgs, fault \in FaultArgs :
        LET region == filter[1]
            language == filter[2]
            reads == RaisesReads(libraries_db, region, language, max_emails, FALSE, fault)
        IN  /\ calls < MaxOps
            /\ FaultReached(libraries_db, region, language, max_emails, FALSE, fault)
            /\ \E clock \in Clocks(reads) :
                  LET out == batch_outreach_raises(libraries_db, campaigns_db, reports,
                                                   region, language, max_emails, FALSE,
                                                   clock, fault)
                  IN  /\ libraries_db' = out.libraries_db
                      /\ campaigns_db' = out.campaigns_db
                      /\ reports' = out.reports
                      /\ ret' = [op |-> "batch_outreach_raises", region |-> region,
                                 language |-> language, max_emails |-> max_emails,
                                 dry_run |-> FALSE, at |-> now, clock |-> clock,
                                 fault |-> fault, value |-> out.value]
                      /\ now' = ClockAfter(clock, out.reads)
                      /\ calls' = calls + 1
                      /\ UNCHANGED <<kpi_file, price_files>>

\* A call that gets as far as its report and cannot open it.
BatchOutreachReportRaises ==
    \E filter \in FaultFilterArgs, max_emails \in FaultMaxEmailsArgs, dry_run \in BOOLEAN :
        LET region == filter[1]
            language == filter[2]
            reads == BatchReads(load_libraries(libraries_db, region, language, TRUE),
                                max_emails, dry_run)
        IN  /\ calls < MaxOps
            /\ ~NoLibraries(load_libraries(libraries_db, region, language, TRUE))
            /\ \E clock \in Clocks(reads) :
                  LET out == batch_outreach_report_raises(libraries_db, campaigns_db,
                                                          reports, region, language,
                                                          max_emails, dry_run, clock)
                  IN  /\ libraries_db' = out.libraries_db
                      /\ campaigns_db' = out.campaigns_db
                      /\ reports' = out.reports
                      /\ ret' = [op |-> "batch_outreach_report_raises", region |-> region,
                                 language |-> language, max_emails |-> max_emails,
                                 dry_run |-> dry_run, at |-> now, clock |-> clock,
                                 value |-> out.value]
                      /\ now' = ClockAfter(clock, out.reads)
                      /\ calls' = calls + 1
                      /\ UNCHANGED <<kpi_file, price_files>>

\* The calls on a store file that exists and cannot be read to its end.
LoadLibrariesUnreadable ==
    \E only_new \in BOOLEAN, read \in ReadArgs :
        /\ calls < MaxOps
        /\ libraries_db.exists
        /\ read <= Len(DictReader(libraries_db.lines).rows)
        /\ ret' = [op |-> "load_libraries_unreadable", region |-> None,
                   language |-> None, only_new |-> only_new, read |-> read,
                   raised |-> FALSE,
                   value |-> load_libraries_unreadable(libraries_db, None, None,
                                                       only_new, read)]
        /\ calls' = calls + 1
        /\ UNCHANGED <<now, kpi_file, price_files>>
        /\ UNCHANGED <<libraries_db, campaigns_db, reports>>

BatchOutreachUnreadable ==
    \E dry_run \in BOOLEAN, read \in ReadArgs :
        LET reads == UnreadableReads(libraries_db, None, None, 2, dry_run, read)
        IN  /\ calls < MaxOps
            /\ libraries_db.exists
            /\ read <= Len(DictReader(libraries_db.lines).rows)
            /\ \E clock \in Clocks(reads) :
                  LET out == batch_outreach_unreadable(libraries_db, campaigns_db, reports,
                                                       None, None, 2, dry_run, clock, read)
                  IN  /\ libraries_db' = out.libraries_db
                      /\ campaigns_db' = out.campaigns_db
                      /\ reports' = out.reports
                      /\ ret' = [op |-> "batch_outreach_unreadable", region |-> None,
                                 language |-> None, max_emails |-> 2, dry_run |-> dry_run,
                                 read |-> read, at |-> now, clock |-> clock,
                                 raised |-> out.value.status = "raised",
                                 value |-> out.value]
                      /\ now' = ClockAfter(clock, out.reads)
                      /\ calls' = calls + 1
                      /\ UNCHANGED <<kpi_file, price_files>>

\* save_campaign is a public method: a caller can hand it any campaign.
SaveCampaign ==
    \E campaign_data \in CampaignArgs :
        /\ calls < MaxOps
        /\ campaigns_db' = save_campaign(campaigns_db, campaign_data)
        /\ ret' = [op |-> "save_campaign", campaign_data |-> campaign_data]
        /\ calls' = calls + 1
        /\ UNCHANGED <<now, kpi_file, price_files>>
        /\ UNCHANGED <<libraries_db, reports>>

GetCampaignStats ==
    /\ calls < MaxOps
    /\ ret' = [op |-> "get_campaign_stats", value |-> get_campaign_stats(campaigns_db)]
    /\ calls' = calls + 1
    /\ UNCHANGED <<now, kpi_file, price_files>>
    /\ UNCHANGED <<libraries_db, campaigns_db, reports>>

GenerateEmail ==
    \E library \in EmailLibraryArgs, language \in EmailLanguageArgs :
        /\ calls < MaxOps
        /\ ret' = [op |-> "generate_email", library |-> library, language |-> language,
                   value |-> generate_email(library, language)]
        /\ calls' = calls + 1
        /\ UNCHANGED <<now, kpi_file, price_files>>
        /\ UNCHANGED <<libraries_db, campaigns_db, reports>>

Next ==
    \/ CreateLibraryTemplate
    \/ LoadLibraries
    \/ GenerateEmail
    \/ GetCampaignStats
    \/ SaveCampaign
    \/ TrackContact
    \/ BatchOutreach
    \/ BatchOutreachRaises
    \/ BatchOutreachReportRaises
    \/ LoadLibrariesUnreadable
    \/ BatchOutreachUnreadable

Spec == Init /\ [][Next]_vars

(***************************************************************************)
(* A campaign: the same real run of batch_outreach, called again and       *)
(* again.  The filters and max_emails are chosen at the start and kept in  *)
(* ret from call to call.  Calls follow each other within the second or    *)
(* across a change of second, which can come before any reading.           *)
(***************************************************************************)
MaxRuns == 21

CampaignMaxEmailsArgs == {1, 2}

InitCampaign ==
    /\ libraries_db \in InitialStores
    /\ campaigns_db \in {AbsentLog, save_campaign(AbsentLog, PriorCampaign)}
    /\ reports = <<>>
    /\ now = 0
    /\ calls = 0
    /\ ret \in {[op |-> "campaign", region |-> filter[1], language |-> filter[2],
                 max_emails |-> max_emails, dry_run |-> FALSE] :
                    filter \in BatchFilterArgs, max_emails \in CampaignMaxEmailsArgs}
    /\ kpi_file = AbsentJson
    /\ price_files = [asin \in AsinArgs |-> AbsentJson]

RepeatBatchOutreach ==
    LET reads == BatchReads(load_libraries(libraries_db, ret.region, ret.language, TRUE),
                            ret.max_emails, FALSE)
    IN  \E clock \in Clocks(reads) :
            LET out == batch_outreach(libraries_db, campaigns_db, reports,
                                      ret.region, ret.language, ret.max_emails, FALSE,
                                      clock)
            IN  /\ calls < MaxRuns
                /\ libraries_db' = out.libraries_db
                /\ campaigns_db' = out.campaigns_db
                /\ reports' = out.reports
                /\ ret' = [op |-> "batch_outreach", region |-> ret.region,
                           language |-> ret.language, max_emails |-> ret.max_emails,
                           dry_run |-> FALSE, at |-> now, clock |-> clock,
                           value |-> out.value]
                /\ now' = ClockAfter(clock, out.reads)
                /\ calls' = calls + 1
                /\ UNCHANGED <<kpi_file, price_files>>

NextCampaign == RepeatBatchOutreach

\* The caller repeats the call: a call that can be made is made.  A step of
\* NextCampaign is a call, which can be made while calls < MaxRuns; the
\* fairness is stated on the count of the calls.
SpecCampaign ==
    InitCampaign /\ [][NextCampaign]_vars
    /\ WF_calls(calls < MaxRuns /\ calls' = calls + 1)

(***************************************************************************)
(* The KPI and price histories: SalesDashboard.track_kpi and get_kpi_trend,*)
(* and track_price_history.                                                *)
(***************************************************************************)
MaxCalls == 2

InitKpi ==
    /\ libraries_db = AbsentFile
    /\ campaigns_db = AbsentLog
    /\ reports = <<>>
    /\ now = 0
    /\ calls = 0
    /\ ret = [op |-> "init"]
    /\ kpi_file \in InitialKpiFiles
    /\ price_files \in InitialPriceFiles

\* `if not timestamp: timestamp = datetime.now().isoformat()`: the clock is read
\* for a call without a timestamp.
TrackKpi ==
    \E metric_name \in MetricArgs, value \in ValueArgs, timestamp \in TimestampArgs :
        LET reads == IF Truthy(timestamp) THEN 0 ELSE 1
        IN  \E clock \in Clocks(reads) :
                LET kpis == track_kpi(kpi_file, metric_name, value, timestamp,
                                      Reading(clock, 1))
                IN  /\ calls < MaxCalls
                    /\ kpi_file' = JsonFile(kpis)
                    /\ ret' = [op |-> "track_kpi", metric_name |-> metric_name,
                               recorded |-> value, timestamp |-> timestamp,
                               at |-> ClockAfter(clock, reads), value |-> kpis]
                    /\ now' = ClockAfter(clock, reads)
                    /\ calls' = calls + 1
                    /\ UNCHANGED <<libraries_db, campaigns_db, reports, price_files>>

GetKpiTrend ==
    \E metric_name \in TrendMetricArgs, days \in DaysArgs :
        /\ calls < MaxCalls
        /\ ret' = [op |-> "get_kpi_trend", metric_name |-> metric_name, days |-> days,
                   value |-> get_kpi_trend(kpi_file, metric_name, days)]
        /\ calls' = calls + 1
        /\ UNCHANGED <<libraries_db, campaigns_db, reports, now, kpi_file, price_files>>

TrackPriceHistory ==
    \E asin \in AsinArgs, current_price \in PriceArgs, clock \in Clocks(1) :
        LET history == track_price_history(price_files[asin], current_price,
                                           Reading(clock, 1))
        IN  /\ calls < MaxCalls
            /\ price_files' = [price_files EXCEPT ![asin] = JsonFile(history)]
            /\ ret' = [op |-> "track_price_history", asin |-> asin,
                       recorded |-> current_price, at |-> Reading(clock, 1),
                       value |-> history]
            /\ now' = Reading(clock, 1)
            /\ calls' = calls + 1
            /\ UNCHANGED <<libraries_db, campaigns_db, reports, kpi_file>>

NextKpi ==
    \/ TrackKpi
    \/ GetKpiTrend
    \/ TrackPriceHistory

SpecKpi == InitKpi /\ [][NextKpi]_vars

(***************************************************************************)
(* Definitions the properties are stated with.                             *)
(***************************************************************************)
\* The contacts of a store file, as csv.DictReader yields them.
Rows(db) == DictReader(db.lines).rows

\* The contacts a call reads: an absent store is created from the seed first.
RowsRead(db) == Rows(create_library_template(db))

\* The elements of rows at the indices in I, in increasing order of index.
Pick(rows, I) ==
    [k \in 1..Cardinality(I) |->
        rows[CHOOSE i \in I : Cardinality({j \in I : j < i}) = k - 1]]

\* A filter given as None is absent; every string, "" included, is supplied.
ExactMatch(row, region, language, only_new) ==
    /\ region # None => row["region"] = region[1]
    /\ language # None => row["idioma_preferido"] = language[1]
    /\ only_new => row["contactado"] # "Si"

\* A filter given as None or as the empty string is absent.
SuppliedMatch(row, region, language, only_new) ==
    /\ (region # None /\ region # Some("")) => row["region"] = region[1]
    /\ (language # None /\ language # Some("")) => row["idioma_preferido"] = language[1]
    /\ only_new => row["contactado"] # "Si"

\* The eligible contacts of a run: not yet contacted and matching its filters.
Eligible(rows, region, language) ==
    Pick(rows, {i \in 1..Len(rows) : SuppliedMatch(rows[i], region, language, TRUE)})

\* The row of the store with a given email (emails are unique in these stores).
HasRow(db, email) ==
    LET rows == Rows(db)
    IN  \E i \in 1..Len(rows) : rows[i]["email"] = email

RowOf(db, email) ==
    LET rows == Rows(db)
    IN  rows[CHOOSE i \in 1..Len(rows) : rows[i]["email"] = email]

IsPrefix(s, u) == Len(s) <= Len(u) /\ \A i \in 1..Len(s) : s[i] = u[i]

BatchStep == ret'.op = "batch_outreach"

ResultsOf(r) == r.value.campaign_data.resultados

(***************************************************************************)
(* C1                                                                      *)
(***************************************************************************)
\* C1: a dry-run batch_outreach leaves every contact of the store as it was,
\* whatever the region, language and max_emails: a store file that exists has
\* the same rows afterwards, field by field; a store file that did not exist
\* is the seed, in which no contact is contacted.
C1_DryRunKeepsContacts ==
    [][(BatchStep /\ ret'.dry_run) =>
         LET before == Rows(libraries_db)
             after == Rows(libraries_db')
         IN  /\ libraries_db.exists =>
                  /\ Len(after) = Len(before)
                  /\ \A i \in 1..Len(before) :
                        /\ after[i]["email"] = before[i]["email"]
                        /\ after[i]["contactado"] = before[i]["contactado"]
                        /\ after[i]["fecha_contacto"] = before[i]["fecha_contacto"]
                        /\ after[i]["respuesta"] = before[i]["respuesta"]
                        /\ after[i]["notas"] = before[i]["notas"]
             /\ ~libraries_db.exists =>
                  \A i \in 1..Len(after) :
                        /\ after[i]["contactado"] = "No"
                        /\ after[i]["fecha_contacto"] = ""
                        /\ after[i]["respuesta"] = ""]_vars

\* A dry run has reported contacts, and each of them is still not contacted.
C1_Witness ==
    /\ ret.op = "batch_outreach"
    /\ ret.dry_run
    /\ ret.value.status = "success"
    /\ ret.value.total_enviados >= 1
    /\ \A k \in 1..Len(ResultsOf(ret)) :
          /\ HasRow(libraries_db, ResultsOf(ret)[k].email)
          /\ RowOf(libraries_db, ResultsOf(ret)[k].email)["contactado"] = "No"

(***************************************************************************)
(* C2                                                                      *)
(***************************************************************************)
\* C2: after a batch_outreach with dry_run = False that returns success, every
\* contact with an entry in the results is stored as contacted ('Si'), with
\* respuesta equal to the entry's 'enviado' and a non-empty fecha_contacto; and
\* every eligible contact without an entry is still not contacted.
C2_RealRunMarksProcessed ==
    [][(BatchStep /\ ~ret'.dry_run /\ ret'.value.status = "success") =>
         LET E == Eligible(RowsRead(libraries_db), ret'.region, ret'.language)
             res == ResultsOf(ret')
             after == Rows(libraries_db')
             sent == {res[k].email : k \in 1..Len(res)}
         IN  /\ \A k \in 1..Len(res) :
                  /\ res[k].estado = "enviado"
                  /\ \E i \in 1..Len(after) :
                        /\ after[i]["email"] = res[k].email
                        /\ after[i]["contactado"] = "Si"
                        /\ after[i]["respuesta"] = res[k].estado
                        /\ after[i]["fecha_contacto"] # ""
             /\ \A j \in 1..Len(E) :
                  E[j]["email"] \notin sent =>
                      \E i \in 1..Len(after) :
                          /\ after[i]["email"] = E[j]["email"]
                          /\ after[i]["contactado"] = "No"]_vars

\* A real run has processed some contacts and left an eligible one for later.
C2_Witness ==
    /\ ret.op = "batch_outreach"
    /\ ~ret.dry_run
    /\ ret.value.status = "success"
    /\ ret.value.total_enviados >= 1
    /\ \A k \in 1..Len(ResultsOf(ret)) :
          RowOf(libraries_db, ResultsOf(ret)[k].email)["contactado"] = "Si"
    /\ Eligible(Rows(libraries_db), ret.region, ret.language) # <<>>

(***************************************************************************)
(* C3                                                                      *)
(***************************************************************************)
\* C3 as stated: load_libraries returns exactly the contacts that satisfy all
\* the filters supplied, where only a filter that is None counts as absent, in
\* the order of the store.
C3_ExactFilter ==
    ret.op = "load_libraries" =>
        ret.value =
            Pick(Rows(libraries_db),
                 {i \in 1..Len(Rows(libraries_db)) :
                     ExactMatch(Rows(libraries_db)[i], ret.region, ret.language,
                                ret.only_new)})

\* C3 as amended: load_libraries returns exactly the contacts that satisfy all
\* the filters supplied, exactly and case-sensitively, in the order of the
\* store, where a filter that is None or the empty string counts as absent;
\* only_new = True removes every contact whose contactado is 'Si'.
C3_SuppliedFilter ==
    ret.op = "load_libraries" =>
        ret.value =
            Pick(Rows(libraries_db),
                 {i \in 1..Len(Rows(libraries_db)) :
                     SuppliedMatch(Rows(libraries_db)[i], ret.region, ret.language,
                                   ret.only_new)})

\* A load with both filters and only_new has kept some contacts and dropped others.
C3_Witness ==
    /\ ret.op = "load_libraries"
    /\ ret.region = Some("Europa")
    /\ ret.language = Some("EN")
    /\ ret.only_new
    /\ ret.value # <<>>
    /\ Len(ret.value) < Len(Rows(libraries_db))
    /\ \E i \in 1..Len(Rows(libraries_db)) :
          /\ Rows(libraries_db)[i]["contactado"] = "Si"
          /\ Rows(libraries_db)[i]["region"] = "Europa"
          /\ Rows(libraries_db)[i]["idioma_preferido"] = "EN"

(***************************************************************************)
(* C4                                                                      *)
(***************************************************************************)
\* C4 as stated: when no contact is eligible, batch_outreach returns
\* 'no_libraries' and changes nothing: the log, the reports and the store file
\* are what they were.
C4_NoEligibleChangesNothing ==
    [][(BatchStep /\ Eligible(RowsRead(libraries_db), ret'.region, ret'.language) = <<>>) =>
         /\ ret'.value.status = "no_libraries"
         /\ campaigns_db' = campaigns_db
         /\ reports' = reports
         /\ libraries_db' = libraries_db]_vars

\* C4 as amended: when no contact is eligible, batch_outreach returns
\* 'no_libraries', the log and the reports are what they were, and so is a store
\* file that existed; a store file that did not exist is created from the seed.
C4_NoEligibleKeepsLogAndReports ==
    [][(BatchStep /\ Eligible(RowsRead(libraries_db), ret'.region, ret'.language) = <<>>) =>
         /\ ret'.value.status = "no_libraries"
         /\ campaigns_db' = campaigns_db
         /\ reports' = reports
         /\ libraries_db.exists => libraries_db' = libraries_db
         /\ ~libraries_db.exists => libraries_db' = File(template)]_vars

\* A run found no eligible contact in a store it had to create, and wrote no report.
C4_Witness ==
    /\ ret.op = "batch_outreach"
    /\ ret.value.status = "no_libraries"
    /\ libraries_db = File(template)
    /\ reports = <<>>
    /\ campaigns_db \in InitialLogs

(***************************************************************************)
(* C5                                                                      *)
(***************************************************************************)
\* C5: for max_emails >= 0 and a non-empty list E of eligible contacts (in store
\* order), the results are the first min(max_emails, |E|) contacts of E, one
\* entry each, in the same order.
C5_ResultsAreFirstOfEligible ==
    [][(BatchStep /\ ret'.max_emails >= 0
          /\ Eligible(RowsRead(libraries_db), ret'.region, ret'.language) # <<>>) =>
         LET E == Eligible(RowsRead(libraries_db), ret'.region, ret'.language)
             res == ResultsOf(ret')
         IN  /\ ret'.value.status = "success"
             /\ Len(res) = Min(ret'.max_emails, Len(E))
             /\ \A k \in 1..Len(res) :
                  /\ res[k].email = E[k]["email"]
                  /\ res[k].biblioteca = E[k]["nombre"]
                  /\ res[k].ciudad = E[k]["ciudad"]
                  /\ res[k].pais = E[k]["pais"]]_vars

\* A run limited to two contacts has reported two and left an eligible one.
C5_Witness ==
    /\ ret.op = "batch_outreach"
    /\ ret.dry_run
    /\ ret.max_emails = 2
    /\ ret.value.status = "success"
    /\ Len(ResultsOf(ret)) = 2
    /\ ResultsOf(ret)[1].email # ResultsOf(ret)[2].email
    /\ Len(Eligible(Rows(libraries_db), ret.region, ret.language)) > 2

(***************************************************************************)
(* C6                                                                      *)
(***************************************************************************)
\* C6: batch_outreach returns 'no_libraries' exactly when no contact is
\* eligible; with max_emails = 0 and an eligible contact it returns success
\* with total_enviados = 0 and no result.
C6_ZeroProcessedIsNotNoEligible ==
    [][BatchStep =>
         LET E == Eligible(RowsRead(libraries_db), ret'.region, ret'.language)
         IN  /\ ret'.value.status = "no_libraries" <=> E = <<>>
             /\ (ret'.max_emails = 0 /\ E # <<>>) =>
                  /\ ret'.value.status = "success"
                  /\ ret'.value.total_enviados = 0
                  /\ ResultsOf(ret') = <<>>]_vars

\* A run with max_emails = 0 has returned success with nothing processed.
C6_Witness ==
    /\ ret.op = "batch_outreach"
    /\ ret.max_emails = 0
    /\ ret.value.status = "success"
    /\ ret.value.total_enviados = 0
    /\ Eligible(Rows(libraries_db), ret.region, ret.language) # <<>>

(***************************************************************************)
(* C7                                                                      *)
(***************************************************************************)
\* C7: the campaign log is append-only.  Every call leaves the records the log
\* held (none when the file was absent) as a prefix of the log; a successful
\* batch_outreach leaves them followed by its campaign_data, read back equal in
\* all fields, and so does a batch_outreach on a store read in part; a call of
\* save_campaign leaves them followed by the campaign it is given, also when the
\* log holds that campaign already; a batch_outreach that an exception leaves
\* after save_campaign leaves them followed by one record; every other call
\* leaves the log as it was.
C7_LogIsAppendOnly ==
    [][/\ IsPrefix(LoadCampaigns(campaigns_db), LoadCampaigns(campaigns_db'))
       /\ (ret'.op \in {"batch_outreach", "batch_outreach_unreadable"}
             /\ ret'.value.status = "success") =>
            LoadCampaigns(campaigns_db') =
                Append(LoadCampaigns(campaigns_db), ret'.value.campaign_data)
       /\ ret'.op = "save_campaign" =>
            LoadCampaigns(campaigns_db') =
                Append(LoadCampaigns(campaigns_db), ret'.campaign_data)
       /\ ret'.op = "batch_outreach_report_raises" =>
            Len(LoadCampaigns(campaigns_db')) = Len(LoadCampaigns(campaigns_db)) + 1
       /\ ~(\/ ret'.op \in {"batch_outreach", "batch_outreach_unreadable"}
               /\ ret'.value.status = "success"
            \/ ret'.op \in {"save_campaign", "batch_outreach_report_raises"}) =>
            campaigns_db' = campaigns_db]_vars

\* A run has appended its record after the record of an earlier campaign.
C7_Witness ==
    /\ ret.op = "batch_outreach"
    /\ ret.value.status = "success"
    /\ Len(LoadCampaigns(campaigns_db)) = 2
    /\ LoadCampaigns(campaigns_db)[1] = PriorCampaign
    /\ LoadCampaigns(campaigns_db)[2] = ret.value.campaign_data
    /\ ret.value.campaign_data.region = None

(***************************************************************************)
(* C8                                                                      *)
(***************************************************************************)
\* Every record of a log has total_enviados = len(resultados).
TotalsAreLengths(log) ==
    \A i \in 1..Len(LoadCampaigns(log)) :
        LoadCampaigns(log)[i].total_enviados = Len(LoadCampaigns(log)[i].resultados)

\* C8: over the calls of batch_outreach every record of the campaign log has
\* total_enviados = len(resultados): a log whose records have it (the logs of
\* earlier runs do) has it after every call of batch_outreach, whether the call
\* returns or an exception leaves it, and the count a successful run returns is
\* that of the record it appended.  (A record handed to save_campaign by
\* another caller is written as it is given.)
C8_TotalIsNumberOfResults ==
    [][(ret'.op \in {"batch_outreach", "batch_outreach_raises",
                     "batch_outreach_report_raises", "batch_outreach_unreadable"}
          /\ TotalsAreLengths(campaigns_db)) =>
         /\ TotalsAreLengths(campaigns_db')
         /\ ret'.value.status = "success" =>
               /\ ret'.value.total_enviados = Len(ResultsOf(ret'))
               /\ ret'.value.total_enviados =
                     LoadCampaigns(campaigns_db')[Len(LoadCampaigns(campaigns_db'))].total_enviados]_vars

\* A dry run of two contacts is in the log after the record of an earlier campaign.
C8_Witness ==
    /\ ret.op = "batch_outreach"
    /\ ret.dry_run
    /\ ret.value.status = "success"
    /\ ret.value.total_enviados = 2
    /\ Len(LoadCampaigns(campaigns_db)) = 2

(***************************************************************************)
(* C9                                                                      *)
(***************************************************************************)
\* C9: track_contact is idempotent.  After every track_contact call, on every
\* store and for every email, status and notes, a second call with the same
\* arguments, at the same or a later clock reading, leaves the store that this
\* second call alone would have left in place of the first: the same rows, with
\* fecha_contacto the date of the latest call.
C9_TrackContactIdempotent ==
    [][ret'.op = "track_contact" =>
         \A t2 \in ret'.at..MaxClock :
             TrackContactCall(libraries_db', ret'.library_email, ret'.status,
                              ret'.notes, t2)
             = TrackContactCall(libraries_db, ret'.library_email, ret'.status,
                                ret'.notes, t2)]_vars

\* track_contact has marked a contact before midnight; the same call made the
\* day after changes the store in the contact's fecha_contacto and in nothing else.
C9_Witness ==
    /\ ret.op = "track_contact"
    /\ HasRow(libraries_db, ret.library_email)
    /\ RowOf(libraries_db, ret.library_email)["contactado"] = "Si"
    /\ RowOf(libraries_db, ret.library_email)["respuesta"] = ret.status
    /\ RowOf(libraries_db, ret.library_email)["notas"] = "llamar"
    /\ RowOf(libraries_db, ret.library_email)["fecha_contacto"] = StrftimeDate(ret.at)
    /\ ret.at < MaxClock
    /\ LET again == TrackContactCall(libraries_db, ret.library_email, ret.status,
                                     ret.notes, MaxClock)
       IN  /\ again # libraries_db
           /\ RowOf(again, ret.library_email) =
                 [RowOf(libraries_db, ret.library_email)
                     EXCEPT !["fecha_contacto"] = StrftimeDate(MaxClock)]

(***************************************************************************)
(* C10                                                                     *)
(***************************************************************************)
\* C10: track_contact with an email that no contact of the store has raises no
\* error and leaves the store file as it was: the same header line, the same
\* rows, the same fields; also when the store holds no contact.
C10_MissLeavesStore ==
    [][(ret'.op = "track_contact" /\ libraries_db.exists
          /\ ~HasRow(libraries_db, ret'.library_email)) =>
         /\ ~ret'.raised
         /\ libraries_db' = libraries_db]_vars

(***************************************************************************)
(* C11                                                                     *)
(***************************************************************************)
\* The fields track_contact assigns.
ContactFields == {"contactado", "fecha_contacto", "respuesta", "notas"}

\* C11: a track_contact call on a store whose file exists keeps the number and
\* the order of the rows and the field names; the row with the email gets
\* contactado 'Si', fecha_contacto the date of the call, respuesta the status and
\* notas the notes, all four in the one call, and keeps its other fields; every
\* other row is as it was.
C11_TrackContactFrame ==
    [][(ret'.op = "track_contact" /\ libraries_db.exists) =>
         LET before == Rows(libraries_db)
             after == Rows(libraries_db')
             email == ret'.library_email
         IN  /\ Len(after) = Len(before)
             /\ \A i \in 1..Len(before) :
                   /\ DOMAIN after[i] = DOMAIN before[i]
                   /\ after[i]["email"] = before[i]["email"]
                   /\ before[i]["email"] # email => after[i] = before[i]
                   /\ before[i]["email"] = email =>
                         /\ after[i]["contactado"] = "Si"
                         /\ after[i]["fecha_contacto"] = StrftimeDate(ret'.at)
                         /\ after[i]["respuesta"] = ret'.status
                         /\ after[i]["notas"] = ret'.notes
                         /\ \A f \in (DOMAIN before[i]) \ ContactFields :
                               after[i][f] = before[i][f]]_vars

\* track_contact has marked the first of four contacts with notes; of the other
\* three, one was contacted in an earlier session and two are not contacted.
C11_Witness ==
    /\ ret.op = "track_contact"
    /\ ret.notes = "llamar"
    /\ ret.status = "respondido"
    /\ Len(Rows(libraries_db)) = 4
    /\ Rows(libraries_db)[1]["email"] = ret.library_email
    /\ Rows(libraries_db)[1]["contactado"] = "Si"
    /\ Rows(libraries_db)[1]["notas"] = "llamar"
    /\ Rows(libraries_db)[1]["ciudad"] = "Madrid"
    /\ Rows(libraries_db)[2]["fecha_contacto"] = "2025-12-31"
    /\ Rows(libraries_db)[3]["contactado"] = "No"
    /\ Rows(libraries_db)[4]["contactado"] = "No"

(***************************************************************************)
(* C12                                                                     *)
(***************************************************************************)
\* C12: create_library_template on a store file that exists leaves the file as
\* it was, line for line, whatever it holds (no contact, contacts marked
\* contacted); and after any call of it a further call changes nothing.
C12_CreateKeepsExistingStore ==
    [][ret'.op = "create_library_template" =>
         /\ libraries_db.exists => libraries_db' = libraries_db
         /\ create_library_template(libraries_db') = libraries_db']_vars

\* create_library_template has been called on a store that is not the seed and
\* holds a contact marked contacted.
C12_Witness ==
    /\ ret.op = "create_library_template"
    /\ libraries_db.exists
    /\ libraries_db # File(template)
    /\ \E i \in 1..Len(Rows(libraries_db)) : Rows(libraries_db)[i]["contactado"] = "Si"

(***************************************************************************)
(* C13                                                                     *)
(***************************************************************************)
\* No two rows of a list of contacts have the same email.
UniqueEmails(rows) ==
    \A i, j \in 1..Len(rows) : rows[i]["email"] = rows[j]["email"] => i = j

\* C13: in every state, no two contacts of the store have the same email: the
\* contacts of the file when it exists, and those of the seed the next call
\* writes when it does not.
C13_EmailsAreUnique == UniqueEmails(RowsRead(libraries_db))

\* A real batch_outreach has marked two of the twenty contacts of the seed.
C13_Witness ==
    /\ ret.op = "batch_outreach"
    /\ ~ret.dry_run
    /\ Len(Rows(libraries_db)) = 20
    /\ Cardinality({i \in 1..20 : Rows(libraries_db)[i]["contactado"] = "Si"}) = 2

(***************************************************************************)
(* C14                                                                     *)
(***************************************************************************)
\* C14: in every state, a contact of the store whose contactado is not 'Si' has
\* an empty fecha_contacto and an empty respuesta: a date or a response is on
\* file for contacted contacts only.
C14_DateOnlyIfContacted ==
    \A i \in 1..Len(RowsRead(libraries_db)) :
        RowsRead(libraries_db)[i]["contactado"] # "Si" =>
            /\ RowsRead(libraries_db)[i]["fecha_contacto"] = ""
            /\ RowsRead(libraries_db)[i]["respuesta"] = ""

\* track_contact has dated a contact of a store in which another contact is not
\* contacted.
C14_Witness ==
    /\ ret.op = "track_contact"
    /\ HasRow(libraries_db, ret.library_email)
    /\ RowOf(libraries_db, ret.library_email)["contactado"] = "Si"
    /\ RowOf(libraries_db, ret.library_email)["fecha_contacto"] = StrftimeDate(ret.at)
    /\ RowOf(libraries_db, ret.library_email)["respuesta"] = "respondido"
    /\ \E i \in 1..Len(Rows(libraries_db)) :
          /\ Rows(libraries_db)[i]["contactado"] = "No"
          /\ Rows(libraries_db)[i]["fecha_contacto"] = ""

(***************************************************************************)
(* C15                                                                     *)
(***************************************************************************)
\* The entries a successful batch_outreach has just recorded, or none.
Recorded ==
    IF ret.op = "batch_outreach" /\ ret.value.status = "success"
    THEN ResultsOf(ret) ELSE <<>>

\* C15 as stated: every entry recorded by batch_outreach has as idioma the
\* language argument when one is given, whatever string it is, and the
\* contact's idioma_preferido when the argument is None; its asunto is the
\* subject of the template resolve returns for that idioma.
C15_ExplicitLanguageOverrides ==
    \A i \in 1..Len(Recorded) :
        LET contact == RowOf(libraries_db, Recorded[i].email)
        IN  /\ Recorded[i].idioma =
                  IF ret.language # None THEN ret.language[1]
                  ELSE contact["idioma_preferido"]
            /\ Recorded[i].asunto = resolve(Recorded[i].idioma).subject

\* C15: every entry recorded by batch_outreach has as idioma the language
\* argument when one is given and is not the empty string, and the contact's
\* idioma_preferido when the argument is None or ''; its asunto is the subject
\* of the template resolve returns for that idioma.
C15_NonEmptyLanguageOverrides ==
    \A i \in 1..Len(Recorded) :
        LET contact == RowOf(libraries_db, Recorded[i].email)
        IN  /\ Recorded[i].idioma =
                  IF ret.language # None /\ ret.language # Some("") THEN ret.language[1]
                  ELSE contact["idioma_preferido"]
            /\ Recorded[i].asunto = resolve(Recorded[i].idioma).subject

\* A batch called with language '' has recorded a Spanish and an English entry,
\* each with the subject of its contact's language.
C15_Witness ==
    /\ Len(Recorded) = 2
    /\ ret.language = Some("")
    /\ Recorded[1].idioma = "ES"
    /\ Recorded[1].asunto = templates["ES"].subject
    /\ Recorded[2].idioma = "EN"
    /\ Recorded[2].asunto = templates["EN"].subject
    /\ RowOf(libraries_db, Recorded[2].email)["idioma_preferido"] = "EN"

(***************************************************************************)
(* C16                                                                     *)
(***************************************************************************)
\* The language codes self.templates has a template for.
Configured == {"ES", "EN", "FR"}

\* Codes with and without a template.
LanguageCodes == Configured \cup {"IT", "DE", "", "es"}

\* C16: for every language code, resolve returns the subject and body of that
\* code's template when the code is one of ES, EN, FR and those of the Spanish
\* template for every other code, the empty string and a lower-case 'es'
\* included; and a generate_email call, whatever its library and language,
\* returns the subject of the template resolve gives for the language it reports.
C16_ResolveIsTotal ==
    /\ \A code \in LanguageCodes :
          /\ DOMAIN resolve(code) = {"subject", "body"}
          /\ code \in Configured => resolve(code) = templates[code]
          /\ code \notin Configured => resolve(code) = templates["ES"]
    /\ ret.op = "generate_email" =>
          /\ ret.value.language \in Configured =>
                ret.value.subject = templates[ret.value.language].subject
          /\ ret.value.language \notin Configured =>
                ret.value.subject = templates["ES"].subject

\* generate_email was called without a language for a contact that prefers
\* Italian, and has returned the Spanish subject.
C16_Witness ==
    /\ ret.op = "generate_email"
    /\ ret.language = None
    /\ ret.value.language = "IT"
    /\ ret.value.subject = templates["ES"].subject
    /\ ret.value.subject # templates["EN"].subject

(***************************************************************************)
(* C17                                                                     *)
(***************************************************************************)
\* The name a library dict gives, '' when it gives none.
NameOf(library) == IF "nombre" \in DOMAIN library THEN library["nombre"] ELSE ""

\* C17: the body generate_email returns is the body of the template with the
\* name of the library in the place of its one {nombre} field, and with
\* 'Bibliotecario/a' there when the library has no name or an empty one.
C17_EmptyNameGetsPlaceholder ==
    ret.op = "generate_email" =>
        LET body == resolve(ret.value.language).body
            shown == IF NameOf(ret.library) = "" THEN "Bibliotecario/a"
                     ELSE NameOf(ret.library)
        IN  ret.value.body = body[1] \o shown \o body[2]

(***************************************************************************)
(* C18                                                                     *)
(***************************************************************************)
\* The campaign a successful batch_outreach has just appended: the last of the log.
Appended == LoadCampaigns(campaigns_db)[Len(LoadCampaigns(campaigns_db))]

\* C18: after a successful batch_outreach, the report file it names, read back
\* with csv.DictReader, has one row per entry of the campaign the call appended
\* to the log, in the same order, and each row has the entry's biblioteca,
\* email, ciudad, pais, idioma, asunto, estado and fecha.
C18_ReportHasTheRecordsEntries ==
    (ret.op = "batch_outreach" /\ ret.value.status = "success") =>
        /\ ret.value.report_file \in DOMAIN reports
        /\ LET rows == DictReader(reports[ret.value.report_file]).rows
               entries == Appended.resultados
           IN  /\ Len(rows) = Len(entries)
               /\ \A i \in 1..Len(entries) :
                     /\ DOMAIN rows[i] = Keys(ResultKeys)
                     /\ DOMAIN entries[i] = Keys(ResultKeys)
                     /\ \A k \in Keys(ResultKeys) : rows[i][k] = entries[i][k]

\* A real run of two contacts has written a report of a header and two rows,
\* for the contact Lib C and then for Lib A.
C18_Witness ==
    /\ ret.op = "batch_outreach"
    /\ ret.value.status = "success"
    /\ ~ret.dry_run
    /\ Len(reports[ret.value.report_file]) = 3
    /\ Len(Appended.resultados) = 2
    /\ Appended.id = StrftimeStamp(ret.at)
    /\ DictReader(reports[ret.value.report_file]).rows[1]["idioma"] = "IT"
    /\ DictReader(reports[ret.value.report_file]).rows[2]["email"] = "a@x.org"
    /\ DictReader(reports[ret.value.report_file]).rows[2]["estado"] = "enviado"

(***************************************************************************)
(* C19                                                                     *)
(***************************************************************************)
\* The sum of the values of a dict of counts.
SumOfCounts(counts) ==
    Cardinality({kj \in (DOMAIN counts) \X (1..20) : kj[2] <= counts[kj[1]]})

\* The emails counted, campaign by campaign.
SentOf(campaigns) ==
    Cardinality({ij \in (1..Len(campaigns)) \X (1..20) :
                    ij[2] <= campaigns[ij[1]].total_enviados})

\* The campaigns whose filter is the given one.
WithFilter(campaigns, field, filter) ==
    Cardinality({i \in 1..Len(campaigns) : campaigns[i][field] = filter})

\* The campaigns whose filter is None or ''.
Unfiltered(campaigns, field) ==
    WithFilter(campaigns, field, None) + WithFilter(campaigns, field, Some(""))

StatsKeys ==
    {"total_campañas", "total_emails_enviados", "campañas_por_region", "campañas_por_idioma"}

\* C19 as stated: get_campaign_stats returns, for every log, the number of its
\* records (none when there is no file), the sum of their total_enviados, and
\* per region and per language the number of records with that filter, the
\* records whose filter is None being counted under 'Todas' and 'Auto', and
\* every other filter under its own string; each of the two dicts sums to the
\* number of records.
C19_StatsCountPerFilter ==
    ret.op = "get_campaign_stats" =>
        LET campaigns == LoadCampaigns(campaigns_db)
            stats == ret.value
        IN  /\ DOMAIN stats = StatsKeys
            /\ stats["total_campañas"] = Len(campaigns)
            /\ stats["total_emails_enviados"] = SentOf(campaigns)
            /\ \A i \in 1..Len(campaigns) :
                  LET c == campaigns[i]
                  IN  /\ c.region # None =>
                            /\ c.region[1] \in DOMAIN stats["campañas_por_region"]
                            /\ stats["campañas_por_region"][c.region[1]]
                                  = WithFilter(campaigns, "region", c.region)
                      /\ c.region = None =>
                            /\ "Todas" \in DOMAIN stats["campañas_por_region"]
                            /\ stats["campañas_por_region"]["Todas"]
                                  = WithFilter(campaigns, "region", None)
                      /\ c.idioma # None =>
                            /\ c.idioma[1] \in DOMAIN stats["campañas_por_idioma"]
                            /\ stats["campañas_por_idioma"][c.idioma[1]]
                                  = WithFilter(campaigns, "idioma", c.idioma)
                      /\ c.idioma = None =>
                            /\ "Auto" \in DOMAIN stats["campañas_por_idioma"]
                            /\ stats["campañas_por_idioma"]["Auto"]
                                  = WithFilter(campaigns, "idioma", None)
            /\ SumOfCounts(stats["campañas_por_region"]) = Len(campaigns)
            /\ SumOfCounts(stats["campañas_por_idioma"]) = Len(campaigns)

\* C19: when the log file exists, get_campaign_stats returns the number of its
\* records, the sum of their total_enviados, and per region and per language
\* the number of records with that filter, the records whose filter is None or
\* '' being counted together under 'Todas' and 'Auto'; each of the two dicts
\* sums to the number of records.  When there is no log file it returns a
\* message and no count.
C19_StatsOfExistingLog ==
    ret.op = "get_campaign_stats" =>
        LET campaigns == LoadCampaigns(campaigns_db)
            stats == ret.value
        IN  IF ~campaigns_db.exists THEN DOMAIN stats = {"message"}
            ELSE
            /\ DOMAIN stats = StatsKeys
            /\ stats["total_campañas"] = Len(campaigns)
            /\ stats["total_emails_enviados"] = SentOf(campaigns)
            /\ \A i \in 1..Len(campaigns) :
                  LET c == campaigns[i]
                  IN  /\ Truthy(c.region) =>
                            /\ c.region[1] \in DOMAIN stats["campañas_por_region"]
                            /\ stats["campañas_por_region"][c.region[1]]
                                  = WithFilter(campaigns, "region", c.region)
                      /\ ~Truthy(c.region) =>
                            /\ "Todas" \in DOMAIN stats["campañas_por_region"]
                            /\ stats["campañas_por_region"]["Todas"]
                                  = Unfiltered(campaigns, "region")
                      /\ Truthy(c.idioma) =>
                            /\ c.idioma[1] \in DOMAIN stats["campañas_por_idioma"]
                            /\ stats["campañas_por_idioma"][c.idioma[1]]
                                  = WithFilter(campaigns, "idioma", c.idioma)
                      /\ ~Truthy(c.idioma) =>
                            /\ "Auto" \in DOMAIN stats["campañas_por_idioma"]
                            /\ stats["campañas_por_idioma"]["Auto"]
                                  = Unfiltered(campaigns, "idioma")
            /\ SumOfCounts(stats["campañas_por_region"]) = Len(campaigns)
            /\ SumOfCounts(stats["campañas_por_idioma"]) = Len(campaigns)

\* The statistics of a log of three campaigns: three emails in all, two
\* campaigns without a region and one of Europa, one English campaign and two
\* counted under 'Auto', one of which was run with language ''.
C19_Witness ==
    /\ ret.op = "get_campaign_stats"
    /\ campaigns_db.exists
    /\ ret.value["total_campañas"] = 3
    /\ ret.value["total_emails_enviados"] = 3
    /\ ret.value["campañas_por_region"] = ("Todas" :> 2) @@ ("Europa" :> 1)
    /\ ret.value["campañas_por_idioma"] = ("Auto" :> 2) @@ ("EN" :> 1)

(***************************************************************************)
(* C20                                                                     *)
(***************************************************************************)
\* C20: a real batch_outreach that an exception leaves, raised by the
\* track_contact call after k completed ones or by save_campaign after all of
\* them (k the size of the batch), leaves the first k contacts of the batch
\* marked 'Si' with respuesta 'enviado', every other row of the store as it
\* was, the later contacts of the batch among them; a marked contact has the
\* date of the second in which its track_contact read the clock; the exception
\* reaches the caller, and the log and the reports are as before the call.
C20_NoRollback ==
    [][ret'.op = "batch_outreach_raises" =>
         LET E == Eligible(RowsRead(libraries_db), ret'.region, ret'.language)
             n == Min(ret'.max_emails, Len(E))
             k == IF ret'.fault.call = "track_contact" THEN ret'.fault.after ELSE n
             before == RowsRead(libraries_db)
             after == Rows(libraries_db')
         IN  /\ ret'.value.status = "raised"
             /\ k <= n
             /\ Len(after) = Len(before)
             /\ \A i \in 1..Len(before) :
                   IF \E j \in 1..k : E[j]["email"] = before[i]["email"]
                   THEN /\ after[i]["contactado"] = "Si"
                        /\ after[i]["respuesta"] = "enviado"
                        /\ \E j \in 1..k :
                              /\ E[j]["email"] = before[i]["email"]
                              /\ after[i]["fecha_contacto"] =
                                    StrftimeDate(Reading(ret'.clock, TrackRead(j)))
                   ELSE after[i] = before[i]
             /\ \A j \in (k + 1)..Len(E) :
                   RowOf(libraries_db', E[j]["email"])["contactado"] = "No"
             /\ campaigns_db' = campaigns_db
             /\ reports' = reports]_vars

\* A batch of two contacts was left by an exception of its second track_contact
\* call: the first contact is marked, the second is not, and the log has the
\* three campaigns it had.
C20_Witness ==
    /\ ret.op = "batch_outreach_raises"
    /\ ret.max_emails = 2
    /\ ret.fault = [call |-> "track_contact", after |-> 1]
    /\ ret.value.status = "raised"
    /\ Len(Eligible(Rows(libraries_db), ret.region, ret.language)) >= 1
    /\ Rows(libraries_db)[1]["email"] = "a@x.org"
    /\ Rows(libraries_db)[1]["contactado"] = "Si"
    /\ Rows(libraries_db)[1]["fecha_contacto"] = StrftimeDate(ret.at)
    /\ Rows(libraries_db)[3]["email"] = "b@x.org"
    /\ Rows(libraries_db)[3]["contactado"] = "No"
    /\ Len(LoadCampaigns(campaigns_db)) = 3
    /\ reports = <<>>

(***************************************************************************)
(* C21                                                                     *)
(***************************************************************************)
\* C21: a load_libraries call on a store file that cannot be read raises an
\* error to its caller and returns no list, neither an empty one nor the rows
\* read so far; and a batch_outreach on such a store raises too and does not
\* return the status 'no_libraries'.
C21_UnreadableStoreRaises ==
    /\ ret.op = "load_libraries_unreadable" => ret.raised
    /\ ret.op = "batch_outreach_unreadable" =>
          (ret.raised /\ ret.value.status # "no_libraries")

(***************************************************************************)
(* C22                                                                     *)
(***************************************************************************)
\* C22 as stated: in every state the contactado of every row of the store is
\* one of the two strings 'Yes' and 'No'.
C22_ContactedIsYesOrNo ==
    \A i \in 1..Len(RowsRead(libraries_db)) :
        RowsRead(libraries_db)[i]["contactado"] \in {"Yes", "No"}

\* C22: in every state the contactado of every row of the store is one of the
\* two strings 'Si' and 'No'; the row track_contact has marked has 'Si', and a
\* load_libraries with only_new returns rows with 'No' only, so that the filter
\* tests for the value that track_contact writes.
C22_ContactedIsSiOrNo ==
    /\ \A i \in 1..Len(RowsRead(libraries_db)) :
          RowsRead(libraries_db)[i]["contactado"] \in {"Si", "No"}
    /\ (ret.op = "track_contact" /\ HasRow(libraries_db, ret.library_email)) =>
          RowOf(libraries_db, ret.library_email)["contactado"] = "Si"
    /\ (ret.op = "load_libraries" /\ ret.only_new) =>
          \A i \in 1..Len(ret.value) : ret.value[i]["contactado"] = "No"

\* load_libraries with only_new has returned some contacts of a store that
\* holds a contact marked 'Si', and not that one.
C22_Witness ==
    /\ ret.op = "load_libraries"
    /\ ret.only_new
    /\ ret.value # <<>>
    /\ \E i \in 1..Len(Rows(libraries_db)) : Rows(libraries_db)[i]["contactado"] = "Si"
    /\ Len(ret.value) < Len(Rows(libraries_db))
    /\ ret.region = None
    /\ ret.language = None

(***************************************************************************)
(* C23                                                                     *)
(***************************************************************************)
\* The places <<campaign, entry>> of the log at which a campaign of modo 'real'
\* has an entry for the email.
RealSends(log, email) ==
    LET campaigns == LoadCampaigns(log)
    IN  UNION { { <<c, r>> : r \in {k \in 1..Len(campaigns[c].resultados) :
                                     /\ campaigns[c].modo = "real"
                                     /\ campaigns[c].resultados[k].email = email} } :
                c \in 1..Len(campaigns) }

\* A store and a log in which no contact is sent to twice: with unique emails,
\* every email has an entry in at most one campaign of modo 'real' of the log,
\* and the contact of such an entry is marked 'Si' in the store, which keeps it
\* out of the libraries of every later run.
\* C23: over the batch_outreach calls on a store with unique emails, no contact
\* is sent to twice: a store and a log of earlier runs in which none is are left
\* by every call of batch_outreach, returned or left by an exception, as a store
\* and a log in which none is.
SentOnce(db, log) ==
    UniqueEmails(RowsRead(db)) =>
        \A i \in 1..Len(RowsRead(db)) :
            LET row == RowsRead(db)[i]
            IN  /\ Cardinality(RealSends(log, row["email"])) <= 1
                /\ RealSends(log, row["email"]) # {} => row["contactado"] = "Si"

C23_NoDoubleSend ==
    [][(ret'.op \in {"batch_outreach", "batch_outreach_raises",
                     "batch_outreach_report_raises", "batch_outreach_unreadable"}
          /\ SentOnce(libraries_db, campaigns_db)) =>
         SentOnce(libraries_db', campaigns_db')]_vars

\* A real run has sent to a contact of a store in which another contact was
\* sent to by an earlier campaign of the log.
C23_Witness ==
    /\ ret.op = "batch_outreach"
    /\ ~ret.dry_run
    /\ ret.value.status = "success"
    /\ ResultsOf(ret) # <<>>
    /\ HasRow(libraries_db, "d@x.org")
    /\ RealSends(campaigns_db, "d@x.org") # {}
    /\ RealSends(campaigns_db, ResultsOf(ret)[1].email) # {}
    /\ ResultsOf(ret)[1].email # "d@x.org"

(***************************************************************************)
(* C24                                                                     *)
(***************************************************************************)
\* The number of eligible contacts of a campaign's filters in a store.
EligibleCount(db, r) ==
    LET rows == RowsRead(db)
    IN  Cardinality({i \in 1..Len(rows) : SuppliedMatch(rows[i], r.region, r.language, TRUE)})

\* C24: in a campaign (a real run with fixed filters and max_emails >= 1,
\* repeated), every successful run strictly decreases the number of eligible
\* contacts, a run after one that returned 'no_libraries' returns 'no_libraries',
\* and the runs come to return 'no_libraries' and do so from then on.
C24_CampaignTerminates ==
    /\ [][(ret'.op = "batch_outreach" /\ ret'.value.status = "success") =>
            EligibleCount(libraries_db', ret') < EligibleCount(libraries_db, ret')]_vars
    /\ [][(ret.op = "batch_outreach" /\ ret.value.status = "no_libraries") =>
            ret'.value.status = "no_libraries"]_vars
    /\ <>[](ret.op = "batch_outreach" /\ ret.value.status = "no_libraries")

\* A campaign has returned 'no_libraries' after three successful runs: two made
\* in the last second of the day, with the same id and the same report file,
\* and one the day after.
C24_Witness ==
    /\ ret.op = "batch_outreach"
    /\ ret.value.status = "no_libraries"
    /\ calls = 4
    /\ EligibleCount(libraries_db, ret) = 0
    /\ LET campaigns == LoadCampaigns(campaigns_db)
           n == Len(campaigns)
       IN  /\ n >= 3
           /\ campaigns[n - 2].id = StrftimeStamp(0)
           /\ campaigns[n - 1].id = StrftimeStamp(0)
           /\ campaigns[n].id = StrftimeStamp(1)
    /\ DOMAIN reports = {StrftimeStamp(0), StrftimeStamp(1)}
    /\ Cardinality({i \in 1..Len(Rows(libraries_db)) :
                       Rows(libraries_db)[i]["fecha_contacto"] = StrftimeDate(0)}) = 2
    /\ Cardinality({i \in 1..Len(Rows(libraries_db)) :
                       Rows(libraries_db)[i]["fecha_contacto"] = StrftimeDate(1)}) = 1

(***************************************************************************)
(* C25                                                                     *)
(***************************************************************************)
\* C25: no call sets a contact's flag back: a row of the store file with
\* contactado 'Si' before a step is, after it, the row of the same contact at
\* the same place of the file, with contactado 'Si' and, if it had a
\* fecha_contacto, with one.
C25_ContactedIsMonotonic ==
    [][\A i \in 1..Len(Rows(libraries_db)) :
          (libraries_db.exists /\ Rows(libraries_db)[i]["contactado"] = "Si") =>
              /\ libraries_db'.exists
              /\ i <= Len(Rows(libraries_db'))
              /\ Rows(libraries_db')[i]["email"] = Rows(libraries_db)[i]["email"]
              /\ Rows(libraries_db')[i]["contactado"] = "Si"
              /\ (Rows(libraries_db)[i]["fecha_contacto"] # "" =>
                    Rows(libraries_db')[i]["fecha_contacto"] # "")]_vars

\* track_contact has been called for a contact that had been contacted in an
\* earlier session: its date is the date of this call.
C25_Witness ==
    /\ ret.op = "track_contact"
    /\ ret.library_email = "d@x.org"
    /\ HasRow(libraries_db, "d@x.org")
    /\ RowOf(libraries_db, "d@x.org")["contactado"] = "Si"
    /\ RowOf(libraries_db, "d@x.org")["fecha_contacto"] = StrftimeDate(ret.at)
    /\ RowOf(libraries_db, "d@x.org")["fecha_contacto"] # LibD[9]
    /\ Len(Rows(libraries_db)) = 4

(***************************************************************************)
(* C26                                                                     *)
(***************************************************************************)
\* The contacts of the store a step has newly marked as contacted.
NewlyMarked ==
    {i \in 1..Len(RowsRead(libraries_db)) :
        /\ RowsRead(libraries_db)[i]["contactado"] # "Si"
        /\ Rows(libraries_db')[i]["contactado"] = "Si"}

\* C26: a batch_outreach that returns 'success' has at most max(0, max_emails)
\* entries in campaign_results, and has newly marked at most that many contacts,
\* for every max_emails, the negative ones included.
C26_AtMostMaxEmails ==
    [][(BatchStep /\ ret'.value.status = "success") =>
          /\ Len(ResultsOf(ret')) <= Max(0, ret'.max_emails)
          /\ Cardinality(NewlyMarked) <= Max(0, ret'.max_emails)]_vars

(***************************************************************************)
(* C27                                                                     *)
(***************************************************************************)
\* The contacts of a call's batch are marked in the store after the step.
BatchIsMarked(r) ==
    LET E == Eligible(RowsRead(libraries_db), r.region, r.language)
    IN  \A j \in 1..Len(SliceTo(E, r.max_emails)) :
            /\ RowOf(libraries_db', E[j]["email"])["contactado"] = "Si"
            /\ RowOf(libraries_db', E[j]["email"])["fecha_contacto"] =
                  StrftimeDate(Reading(r.clock, TrackRead(j)))

\* The log after the step is the log before it and one campaign, that of the call.
RecordIsAppended(r) ==
    /\ Len(LoadCampaigns(campaigns_db')) = Len(LoadCampaigns(campaigns_db)) + 1
    /\ IsPrefix(LoadCampaigns(campaigns_db), LoadCampaigns(campaigns_db'))
    /\ LET c == LoadCampaigns(campaigns_db')[Len(LoadCampaigns(campaigns_db'))]
       IN  /\ c.id = StrftimeStamp(Reading(r.clock, IdRead(Len(c.resultados), r.dry_run)))
           /\ c.modo = IF r.dry_run THEN "simulacion" ELSE "real"
           /\ Len(c.resultados) =
                 Len(SliceTo(Eligible(RowsRead(libraries_db), r.region, r.language),
                             r.max_emails))

\* C27: batch_outreach processes its contacts, then appends to the log, then
\* writes the report.  A call that an exception of a track_contact or of
\* save_campaign leaves has appended nothing and written no report; one that an
\* exception of the report's open() leaves has marked its contacts (real run) and
\* appended its campaign, and has written no report; one that returns has done
\* all three.  Every report file has the campaign of its run in the log: a
\* campaign with the entries the file holds (the file is named by the second
\* its name is made in, which is the second of the campaign's id or the next).
C27_ProcessThenLogThenReport ==
    [][/\ ret'.op = "batch_outreach_raises" =>
             /\ ret'.fault.call = "save_campaign" => BatchIsMarked(ret')
             /\ campaigns_db' = campaigns_db
             /\ reports' = reports
       /\ ret'.op = "batch_outreach_report_raises" =>
             /\ ~ret'.dry_run => BatchIsMarked(ret')
             /\ RecordIsAppended(ret')
             /\ reports' = reports
       /\ (BatchStep /\ ret'.value.status = "success") =>
             /\ ~ret'.dry_run => BatchIsMarked(ret')
             /\ RecordIsAppended(ret')
             /\ DOMAIN reports' = DOMAIN reports \cup {ret'.value.report_file}
             /\ reports'[ret'.value.report_file] =
                   Report(LoadCampaigns(campaigns_db')[Len(LoadCampaigns(campaigns_db'))].resultados)
       /\ \A f \in DOMAIN reports' :
             \E i \in 1..Len(LoadCampaigns(campaigns_db')) :
                 reports'[f] = Report(LoadCampaigns(campaigns_db')[i].resultados)]_vars

\* A real run of two contacts could not open its report: the two are marked,
\* the log has its campaign after the three it had, and there is no report.
C27_Witness ==
    /\ ret.op = "batch_outreach_report_raises"
    /\ ~ret.dry_run
    /\ ret.max_emails = 2
    /\ Len(LoadCampaigns(campaigns_db)) = 4
    /\ LoadCampaigns(campaigns_db)[4].id = StrftimeStamp(ret.at)
    /\ LoadCampaigns(campaigns_db)[4].modo = "real"
    /\ Len(LoadCampaigns(campaigns_db)[4].resultados) = 2
    /\ \A j \in 1..2 :
          RowOf(libraries_db, LoadCampaigns(campaigns_db)[4].resultados[j].email)["contactado"] = "Si"
    /\ reports = <<>>

(***************************************************************************)
(* C28                                                                     *)
(***************************************************************************)
\* C28: the idioma of every entry of a batch_outreach's results is the
\* idioma_preferido of the entry's contact in the store, whether the call had a
\* language, none, or the empty one (for contacts with an idioma_preferido).
C28_EntryLanguageIsPreferred ==
    (ret.op = "batch_outreach" /\ ret.value.status = "success") =>
        \A j \in 1..Len(ResultsOf(ret)) :
            LET row == RowOf(libraries_db, ResultsOf(ret)[j].email)
            IN  /\ HasRow(libraries_db, ResultsOf(ret)[j].email)
                /\ row["idioma_preferido"] # "" =>
                      ResultsOf(ret)[j].idioma = row["idioma_preferido"]
                /\ Truthy(ret.language) => ResultsOf(ret)[j].idioma = ret.language[1]

\* A run without a language has an entry for a contact whose language has no
\* template: the entry has the contact's language and the Spanish subject.
C28_Witness ==
    /\ ret.op = "batch_outreach"
    /\ ret.value.status = "success"
    /\ ret.language = None
    /\ Len(ResultsOf(ret)) = 2
    /\ ResultsOf(ret)[1].email = "c@x.org"
    /\ RowOf(libraries_db, "c@x.org")["idioma_preferido"] = "IT"
    /\ ResultsOf(ret)[1].idioma = "IT"
    /\ ResultsOf(ret)[1].asunto = templates["ES"].subject
    /\ ResultsOf(ret)[2].idioma = "ES"

(***************************************************************************)
(* C29                                                                     *)
(***************************************************************************)
\* new is the last Min(Len(old) + 1, window) entries of old with entry appended.
IsWindowOf(new, old, entry, window) ==
    /\ Len(new) = Min(Len(old) + 1, window)
    /\ \A k \in 1..Len(new) :
          new[k] = Append(old, entry)[Len(old) + 1 - Len(new) + k]

\* The history of a metric in the KPI file.
HistoryOf(file, metric_name) ==
    IF file.exists /\ metric_name \in DOMAIN file.doc THEN file.doc[metric_name] ELSE <<>>

\* C29: a call of track_kpi leaves, as the history of its metric, the last
\* min(n + 1, 90) of the n entries it had and the one recorded, in that order,
\* and leaves every other metric's history as it was; track_price_history does
\* the same with the history of its ASIN; no history has more than 90 entries.
C29_HistoryIsSlidingWindow ==
    [][/\ ret'.op = "track_kpi" =>
             /\ IsWindowOf(HistoryOf(kpi_file', ret'.metric_name),
                           HistoryOf(kpi_file, ret'.metric_name),
                           [timestamp |-> IF Truthy(ret'.timestamp) THEN ret'.timestamp[1]
                                          ELSE IsoFormat(ret'.at),
                            value |-> ret'.recorded],
                           90)
             /\ DOMAIN kpi_file'.doc = DOMAIN LoadKpis(kpi_file) \cup {ret'.metric_name}
             /\ \A m \in DOMAIN LoadKpis(kpi_file) \ {ret'.metric_name} :
                   kpi_file'.doc[m] = kpi_file.doc[m]
             /\ ret'.value = kpi_file'.doc
       /\ ret'.op = "track_price_history" =>
             /\ IsWindowOf(price_files'[ret'.asin].doc,
                           IF price_files[ret'.asin].exists
                           THEN price_files[ret'.asin].doc ELSE <<>>,
                           [fecha |-> IsoFormat(ret'.at), precio |-> ret'.recorded],
                           90)
             /\ \A asin \in AsinArgs \ {ret'.asin} : price_files'[asin] = price_files[asin]
             /\ ret'.value = price_files'[ret'.asin].doc
       /\ \A m \in DOMAIN LoadKpis(kpi_file') : Len(kpi_file'.doc[m]) <= 90
       /\ \A asin \in AsinArgs : Len(price_files'[asin].doc) <= 90]_vars

\* A price was recorded after a KPI value, each in a history of 90 entries:
\* both histories have 90 entries, have lost their oldest entry and end with
\* the value recorded, and the other metric's history is as it was.
C29_Witness ==
    /\ ret.op = "track_price_history"
    /\ ret.asin = "B00PIPTRI8"
    /\ Len(price_files["B00PIPTRI8"].doc) = 90
    /\ price_files["B00PIPTRI8"].doc[1] = PriceHistory(90)[2]
    /\ price_files["B00PIPTRI8"].doc[90].precio = ret.recorded
    /\ ~price_files["B0CLQ2RJP3"].exists
    /\ Len(HistoryOf(kpi_file, "sales")) = 90
    /\ HistoryOf(kpi_file, "sales")[1] = History(90)[2]
    /\ HistoryOf(kpi_file, "sales")[89] = History(90)[90]
    /\ HistoryOf(kpi_file, "sales")[90].value = 30
    /\ HistoryOf(kpi_file, "reviews") = History(3)

(***************************************************************************)
(* C30                                                                     *)
(***************************************************************************)
\* C30: get_kpi_trend(metric_name, days) with days >= 0 returns None when the
\* file or the metric does not exist; otherwise it looks at the last `days`
\* values only: with fewer than 2 of them it returns 'insufficient_data', and
\* the data_points it reports are at most days.
C30_TrendLooksAtLastDays ==
    (ret.op = "get_kpi_trend" /\ ret.days >= 0) =>
        LET history == HistoryOf(kpi_file, ret.metric_name)
            inWindow == Min(ret.days, Len(history))
        IN  IF ~kpi_file.exists \/ ret.metric_name \notin DOMAIN kpi_file.doc
            THEN ret.value = None
            ELSE /\ ret.value # None
                 /\ inWindow < 2 => ret.value[1].trend = "insufficient_data"
                 /\ ret.value[1].trend # "insufficient_data" =>
                       ret.value[1].data_points <= ret.days

=============================================================================
